---- MODULE Spec2Model ----
(***************************************************************************)
(* Model of the material cost engine: the value objects, the inventory     *)
(* history service (InventoryHistoryService::create_history) and the       *)
(* material cost calculation service                                       *)
(* (MaterialCostCalculationService::calculate_material_consumption).       *)
(*                                                                         *)
(* Conventions                                                             *)
(*  - A Rust String is a sequence of byte values (ASCII codes), so that    *)
(*    the derived Ord of String (bytewise lexicographic) can be computed.  *)
(*  - f64 values are modelled by integers; the inputs are chosen so that   *)
(*    every product and sum is an integer.                                 *)
(*  - A Rust Result is a record [ok, value, err].                          *)
(***************************************************************************)
EXTENDS Integers, Sequences, FiniteSets, TLC

VARIABLES
    transactions,   \* Vec<InventoryTransaction> held by the transaction repository
    history,        \* result of InventoryHistoryService::create_history
    history_again,  \* result of create_history run once more on the same list
    hpc,            \* position of the history pipeline:
                    \* "idle" | "load" | "done" | "again"
    production,     \* the Production handed to calculate_material_consumption
    formula_repo,   \* FormulaRepository data: product code -> Vec<FormulaEntry>
    purchase_repo,  \* PurchaseRepository data: product code -> Purchase
    freight_repo,   \* FreightMasterRepository data: freight code -> FreightMaster
    cost,           \* result of calculate_material_consumption
    freight_calls,  \* the codes find_by_code was called with, in call order
    result_dto,     \* the MaterialCostResultDto the interactor presents, or <<>>
    cpc,            \* position of the cost pipeline: "idle" | "ready" | "done"
    call,           \* the last call of a constructor or pure function:
                    \* [fn, args, result]
    amount,         \* the Amount a caller holds while chaining Amount's
                    \* operations, as the Result that produced it
    found,          \* what the repository of an interactor returns from
                    \* find_all / find_all_transactions
    port,           \* the calls an interactor has made on its output port
    exec,           \* the Result execute has returned
    epc             \* position of execute: "idle" | "history" | "cost" |
                    \* "returned"

vars == <<transactions, history, history_again, hpc, production, formula_repo, purchase_repo,
          freight_repo, cost, freight_calls, result_dto, cpc, call, amount,
          found, port, exec, epc>>

historyVars == <<transactions, history, history_again, hpc>>
costVars == <<production, formula_repo, purchase_repo, freight_repo, cost,
              freight_calls, result_dto, cpc>>
valueVars == <<call, amount>>
execVars == <<found, port, exec, epc>>

(***************************************************************************)
(* Bounds of the model.                                                    *)
(***************************************************************************)
MaxTx == 3
MaxLines == 2

(***************************************************************************)
(* Result<T>.                                                              *)
(***************************************************************************)
Ok(v) == [ok |-> TRUE, value |-> v, err |-> "none"]
Err(kind) == [ok |-> FALSE, value |-> <<>>, err |-> kind]

(***************************************************************************)
(* Strings as byte sequences.                                              *)
(***************************************************************************)
SetMin(S) == CHOOSE x \in S : \A y \in S : x <= y

\* Ordering::Less = -1, Equal = 0, Greater = 1 for integers
IntCmp(a, b) == IF a < b THEN -1 ELSE IF a > b THEN 1 ELSE 0

\* <String as Ord>::cmp : bytewise lexicographic, a proper prefix is smaller
StrCmp(a, b) ==
    LET n == IF Len(a) < Len(b) THEN Len(a) ELSE Len(b)
        diff == {i \in 1..n : a[i] # b[i]}
    IN  IF diff = {} THEN IntCmp(Len(a), Len(b))
        ELSE IntCmp(a[SetMin(diff)], b[SetMin(diff)])

IsWhitespace(c) == c = 32 \/ (c >= 9 /\ c <= 13)
IsAsciiDigit(c) == c >= 48 /\ c <= 57

\* str::trim : drop leading and trailing whitespace
Trim(s) ==
    LET keep == {i \in 1..Len(s) : ~IsWhitespace(s[i])}
    IN  IF keep = {} THEN <<>>
        ELSE LET lo == SetMin(keep)
                 hi == CHOOSE x \in keep : \A y \in keep : y <= x
             IN  SubSeq(s, lo, hi)

Contains(s, c) == \E i \in 1..Len(s) : s[i] = c

\* str::split(char) : the parts between the occurrences of sep
RECURSIVE Split(_, _)
Split(s, sep) ==
    LET at == {i \in 1..Len(s) : s[i] = sep}
    IN  IF at = {} THEN <<s>>
        ELSE LET k == SetMin(at)
             IN  <<SubSeq(s, 1, k - 1)>> \o Split(SubSeq(s, k + 1, Len(s)), sep)

RECURSIVE DigitsValue(_)
DigitsValue(s) ==
    IF s = <<>> THEN 0
    ELSE 10 * DigitsValue(SubSeq(s, 1, Len(s) - 1)) + (s[Len(s)] - 48)

AllDigits(s) == \A i \in 1..Len(s) : IsAsciiDigit(s[i])

\* the digits without their leading zeros
RECURSIVE StripZeros(_)
StripZeros(s) ==
    IF s # <<>> /\ s[1] = 48 THEN StripZeros(Tail(s)) ELSE s

\* the number written by digits is greater than the one written by limit
Exceeds(digits, limit) ==
    LET d == StripZeros(digits)
    IN  Len(d) > Len(limit) \/ (Len(d) = Len(limit) /\ StrCmp(d, limit) > 0)

\* "2147483647" (i32::MAX), "2147483648" (-i32::MIN), "4294967295" (u32::MAX)
I32MaxDigits == <<50, 49, 52, 55, 52, 56, 51, 54, 52, 55>>
I32MinDigits == <<50, 49, 52, 55, 52, 56, 51, 54, 52, 56>>
U32MaxDigits == <<52, 50, 57, 52, 57, 54, 55, 50, 57, 53>>

\* str::parse::<i32> : optional sign, then one or more ASCII digits, in range
ParseI32(s) ==
    LET signed == Len(s) > 1 /\ s[1] \in {43, 45}
        negative == signed /\ s[1] = 45
        digits == IF signed THEN SubSeq(s, 2, Len(s)) ELSE s
    IN  IF digits = <<>> \/ ~AllDigits(digits) THEN Err("ParseIntError")
        ELSE IF negative /\ Exceeds(digits, I32MinDigits) THEN Err("ParseIntError")
        ELSE IF ~negative /\ Exceeds(digits, I32MaxDigits) THEN Err("ParseIntError")
        ELSE IF negative /\ Exceeds(digits, I32MaxDigits) THEN Ok(0 - 2147483647 - 1)
        ELSE IF negative THEN Ok(0 - DigitsValue(digits))
        ELSE Ok(DigitsValue(digits))

\* str::parse::<u32> : optional '+', then one or more ASCII digits, in range.
\* A value above 2147483647 is kept as 2147483647: the callers only compare
\* it with 12 and 31.
ParseU32(s) ==
    LET signed == Len(s) > 1 /\ s[1] = 43
        digits == IF signed THEN SubSeq(s, 2, Len(s)) ELSE s
    IN  IF digits = <<>> \/ ~AllDigits(digits) THEN Err("ParseIntError")
        ELSE IF Exceeds(digits, U32MaxDigits) THEN Err("ParseIntError")
        ELSE IF Exceeds(digits, I32MaxDigits) THEN Ok(2147483647)
        ELSE Ok(DigitsValue(digits))

(***************************************************************************)
(* Value objects.                                                          *)
(***************************************************************************)
\* TransactionDate::is_valid_date_format
is_valid_date_format(date_str) ==
    LET separator == IF Contains(date_str, 45) THEN 45
                     ELSE IF Contains(date_str, 47) THEN 47
                     ELSE IF Contains(date_str, 46) THEN 46
                     ELSE 0
        parts == Split(date_str, separator)
        year == ParseI32(parts[1])
        month == ParseU32(parts[2])
        day == ParseU32(parts[3])
        leap == (year.value % 4 = 0 /\ year.value % 100 # 0) \/ (year.value % 400 = 0)
        max_day == IF month.value \in {1, 3, 5, 7, 8, 10, 12} THEN 31
                   ELSE IF month.value \in {4, 6, 9, 11} THEN 30
                   ELSE IF leap THEN 29 ELSE 28
    IN  IF separator = 0 THEN FALSE
        ELSE IF Len(parts) # 3 THEN FALSE
        ELSE IF ~year.ok \/ ~month.ok \/ ~day.ok THEN FALSE
        ELSE IF ~(year.value >= 1900 /\ year.value <= 2100) THEN FALSE
        ELSE IF ~(month.value >= 1 /\ month.value <= 12) THEN FALSE
        ELSE IF day.value < 1 THEN FALSE
        ELSE day.value <= max_day

\* TransactionDate::new : the value kept is the trimmed input string
TransactionDate_new(date) ==
    LET trimmed == Trim(date)
    IN  IF trimmed = <<>> THEN Err("ValidationError")
        ELSE IF ~is_valid_date_format(trimmed) THEN Err("ValidationError")
        ELSE Ok(trimmed)

\* #[derive(PartialOrd, Ord)] on TransactionDate(String): the order of the string
TransactionDate_cmp(a, b) == StrCmp(a, b)

\* ProductCode::new
ProductCode_new(code) ==
    IF Trim(code) = <<>> THEN Err("ValidationError") ELSE Ok(Trim(code))

\* a variant that rejects zero as well
Quantity_new_positive_only(value) ==
    IF value <= 0 THEN Err("ValidationError") ELSE Ok(value)

\* Quantity::new
Quantity_new(value) ==
    IF value < 0 THEN Err("ValidationError") ELSE Ok(value)

\* a variant of InventoryBalance::new that validates like Quantity::new
InventoryBalance_new_rejecting(value) ==
    IF value < 0 THEN Err("ValidationError") ELSE Ok(value)

\* InventoryBalance::new : negative balances are accepted
InventoryBalance_new(value) == Ok(value)

\* enum InventoryType
InventoryType == {"Production", "Purchase", "Sales"}

\* InventoryTransaction::new
InventoryTransaction_new(date, inventory_type, product_code, product_name, quantity) ==
    [date |-> date, inventory_type |-> inventory_type, product_code |-> product_code,
     product_name |-> product_name, quantity |-> quantity]

\* f64::abs
Abs(x) == IF x < 0 THEN 0 - x ELSE x

(***************************************************************************)
(* InventoryHistoryService::create_history.                                *)
(***************************************************************************)
\* the comparator handed to sort_by: date, then product code
history_cmp(a, b) ==
    LET by_date == TransactionDate_cmp(a.date, b.date)
    IN  IF by_date # 0 THEN by_date ELSE StrCmp(a.product_code, b.product_code)

\* slice::sort_by is a stable sort: an element goes after every element that
\* does not compare greater than it
RECURSIVE sort_by(_)
sort_by(v) ==
    IF v = <<>> THEN <<>>
    ELSE LET front == sort_by(SubSeq(v, 1, Len(v) - 1))
             x == v[Len(v)]
             k == Cardinality({i \in 1..Len(front) : history_cmp(front[i], x) <= 0})
         IN  SubSeq(front, 1, k) \o <<x>> \o SubSeq(front, k + 1, Len(front))

\* a variant of the change that does not negate a sale
history_change_unsigned(transaction) == transaction.quantity

\* a variant that counts productions only
history_change_production_only(transaction) ==
    IF transaction.inventory_type = "Production" THEN transaction.quantity ELSE 0

\* the signed change of a transaction
history_change(transaction) ==
    IF transaction.inventory_type \in {"Production", "Purchase"}
    THEN transaction.quantity
    ELSE 0 - transaction.quantity

\* a variant of the lookup that reads the balance of whichever product is stored
balance_of_any_product(balances, code) ==
    IF DOMAIN balances = {} THEN 0
    ELSE balances[CHOOSE c \in DOMAIN balances : TRUE]

\* a variant of the fresh map that holds a balance made of its RandomState
HashMap_new_seeded(random_state) == [c \in {<<80, 49>>} |-> random_state]

\* HashMap::new() : no key, whatever the RandomState of the map, which only
\* orders an iteration
HashMap_new(random_state) == <<>>

\* a variant of the insert that keeps one balance only, for the last product
balance_insert_single(balances, code, value) == [c \in {code} |-> value]

\* HashMap::get(..).unwrap_or(&0.0) and HashMap::insert on the balances map
balance_of(balances, code) == IF code \in DOMAIN balances THEN balances[code] ELSE 0
balance_insert(balances, code, value) ==
    [c \in (DOMAIN balances) \cup {code} |-> IF c = code THEN value ELSE balances[c]]

\* the loop over the sorted transactions; the first failing constructor ends it
RECURSIVE history_loop(_, _, _)
history_loop(rest, balances, records) ==
    IF rest = <<>> THEN Ok(records)
    ELSE LET transaction == Head(rest)
             product_code_str == transaction.product_code
             current_balance == balance_of(balances, product_code_str)
             change == history_change(transaction)
             new_balance == current_balance + change
             base_quantity == InventoryBalance_new(current_balance)
             change_quantity == Quantity_new(Abs(change))
             balance == InventoryBalance_new(new_balance)
         IN  IF ~base_quantity.ok THEN Err(base_quantity.err)
             ELSE IF ~change_quantity.ok THEN Err(change_quantity.err)
             ELSE IF ~balance.ok THEN Err(balance.err)
             ELSE history_loop(
                    Tail(rest),
                    balance_insert(balances, product_code_str, new_balance),
                    Append(records,
                           [date |-> transaction.date,
                            inventory_type |-> transaction.inventory_type,
                            product_code |-> transaction.product_code,
                            product_name |-> transaction.product_name,
                            base_quantity |-> base_quantity.value,
                            change_quantity |-> change_quantity.value,
                            balance |-> balance.value]))

\* create_history, its balances map being created with random_state
create_history_with(txs, random_state) ==
    history_loop(sort_by(txs), HashMap_new(random_state), <<>>)

create_history(txs) == history_loop(sort_by(txs), <<>>, <<>>)

(***************************************************************************)
(* Amount, FreightCode and the entities of the cost calculation.           *)
(***************************************************************************)
\* Amount::new
Amount_new(value) ==
    IF value < 0 THEN Err("ValidationError") ELSE Ok(value)

\* Amount::zero
Amount_zero == 0

\* a variant of add that drops the left operand (an assignment, not a sum)
Amount_add_overwriting(self, other) == other

\* Amount::add
Amount_add(self, other) == self + other

\* an f64 factor that need not be whole is the ratio num/den, den > 0;
\* Quantity::value is a whole number of kilograms
Quantity_value(quantity) == [num |-> quantity, den |-> 1]

\* a variant whose range is open at 1.0
YieldRate_new_below_one(value) ==
    IF ~(value.den > 0 /\ 0 <= value.num /\ value.num < value.den)
    THEN Err("ValidationError")
    ELSE Ok(value)

\* YieldRate::new : the rate lies in 0.0..=1.0; the range holds no value
\* whose den is 0 (NaN, the infinities)
YieldRate_new(value) ==
    IF ~(value.den > 0 /\ 0 <= value.num /\ value.num <= value.den)
    THEN Err("ValidationError")
    ELSE Ok(value)

\* the quotient a / b of two f64 values, for operands whose quotient is whole
F64Div(a, b) ==
    IF b < 0 THEN 0 - (a \div (0 - b)) ELSE a \div b

\* Amount::multiply
Amount_multiply(self, ratio) == F64Div(self * ratio.num, ratio.den)

\* Amount::divide_by
Amount_divide_by(self, divisor) == F64Div(self, divisor)

\* enum FreightCode { Code(String), DirectPrice(f64) }
Code(code) == [tag |-> "Code", code |-> code, price |-> 0]
DirectPrice(price) == [tag |-> "DirectPrice", code |-> <<>>, price |-> price]

(***************************************************************************)
(* str::parse::<f64>.  An f64 is the ratio num/den in lowest terms with    *)
(* den > 0; the values that are no ratio have den = 0: NaN is 0/0 and the  *)
(* infinities are 1/0 and -1/0.  The sign of a zero is not kept.           *)
(***************************************************************************)
F64NaN == [num |-> 0, den |-> 0]
F64Inf(negative) == [num |-> IF negative THEN 0 - 1 ELSE 1, den |-> 0]

RECURSIVE Gcd(_, _)
Gcd(a, b) == IF b = 0 THEN a ELSE Gcd(b, a % b)

\* the f64 with the value num/den, den > 0
F64(num, den) ==
    LET g == Gcd(Abs(num), den)
    IN  [num |-> num \div g, den |-> den \div g]

RECURSIVE Pow10(_)
Pow10(n) == IF n = 0 THEN 1 ELSE 10 * Pow10(n - 1)

\* u8::to_ascii_lowercase
ToAsciiLowercase(c) == IF c >= 65 /\ c <= 90 THEN c + 32 ELSE c

\* "inf", "infinity", "nan"
InfLiteral == <<105, 110, 102>>
InfinityLiteral == <<105, 110, 102, 105, 110, 105, 116, 121>>
NanLiteral == <<110, 97, 110>>

\* the price comparisons of f64: every comparison with NaN is false
F64LtZero(v) == v.num < 0
F64GeZero(v) == v.num > 0 \/ (v.num = 0 /\ v.den > 0)

\* str::parse::<f64> : an optional sign, then "inf", "infinity" or "nan" in
\* any case, or digits with an optional point and an optional exponent
ParseF64(s) ==
    LET signed == s # <<>> /\ s[1] \in {43, 45}
        negative == signed /\ s[1] = 45
        body == IF signed THEN Tail(s) ELSE s
        lower == [i \in 1..Len(body) |-> ToAsciiLowercase(body[i])]
        exps == {i \in 1..Len(body) : body[i] \in {69, 101}}
        e_at == IF exps = {} THEN Len(body) + 1 ELSE SetMin(exps)
        mantissa == SubSeq(body, 1, e_at - 1)
        exponent == SubSeq(body, e_at + 1, Len(body))
        points == {i \in 1..Len(mantissa) : mantissa[i] = 46}
        p_at == IF points = {} THEN Len(mantissa) + 1 ELSE SetMin(points)
        int_digits == SubSeq(mantissa, 1, p_at - 1)
        frac_digits == SubSeq(mantissa, p_at + 1, Len(mantissa))
        exp_signed == exponent # <<>> /\ exponent[1] \in {43, 45}
        exp_negative == exp_signed /\ exponent[1] = 45
        exp_digits == IF exp_signed THEN Tail(exponent) ELSE exponent
        digits == int_digits \o frac_digits
        scale == (IF exp_negative THEN 0 - DigitsValue(exp_digits)
                  ELSE DigitsValue(exp_digits)) - Len(frac_digits)
        magnitude == DigitsValue(digits)
        sign == IF negative THEN 0 - 1 ELSE 1
    IN  IF body = <<>> THEN Err("ParseFloatError")
        ELSE IF lower = InfLiteral \/ lower = InfinityLiteral THEN Ok(F64Inf(negative))
        ELSE IF lower = NanLiteral THEN Ok(F64NaN)
        ELSE IF digits = <<>> \/ ~AllDigits(digits) THEN Err("ParseFloatError")
        ELSE IF exps # {} /\ (exp_digits = <<>> \/ ~AllDigits(exp_digits))
        THEN Err("ParseFloatError")
        ELSE IF scale >= 0 THEN Ok(F64(sign * magnitude * Pow10(scale), 1))
        ELSE Ok(F64(sign * magnitude, Pow10(0 - scale)))

\* a variant that takes 'T' and any four characters for a code
FreightCode_new_any_suffix(value) ==
    LET trimmed == Trim(value)
        price == ParseF64(trimmed)
    IN  IF trimmed = <<>> THEN Err("ValidationError")
        ELSE IF price.ok
        THEN IF F64LtZero(price.value) THEN Err("ValidationError")
             ELSE Ok(DirectPrice(price.value))
        ELSE IF trimmed[1] = 84 /\ Len(trimmed) = 5
        THEN Ok(Code(trimmed))
        ELSE Err("ValidationError")

\* a variant that takes every number for a direct price
FreightCode_new_unsigned(value) ==
    LET trimmed == Trim(value)
        price == ParseF64(trimmed)
    IN  IF trimmed = <<>> THEN Err("ValidationError")
        ELSE IF price.ok THEN Ok(DirectPrice(price.value))
        ELSE IF trimmed[1] = 84 /\ Len(trimmed) = 5
                /\ AllDigits(SubSeq(trimmed, 2, Len(trimmed)))
        THEN Ok(Code(trimmed))
        ELSE Err("ValidationError")

\* FreightCode::new
FreightCode_new(value) ==
    LET trimmed == Trim(value)
        price == ParseF64(trimmed)
    IN  IF trimmed = <<>> THEN Err("ValidationError")
        ELSE IF price.ok
        THEN IF F64LtZero(price.value) THEN Err("ValidationError")
             ELSE Ok(DirectPrice(price.value))
        ELSE IF trimmed[1] = 84 /\ Len(trimmed) = 5
                /\ AllDigits(SubSeq(trimmed, 2, Len(trimmed)))
        THEN Ok(Code(trimmed))
        ELSE Err("ValidationError")

\* Production::new
Production_new(product_code, quantity, yield_rate, coagulant_cost, clay_treatment_cost) ==
    [product_code |-> product_code, quantity |-> quantity, yield_rate |-> yield_rate,
     coagulant_cost |-> coagulant_cost, clay_treatment_cost |-> clay_treatment_cost]

\* FormulaEntry::new
FormulaEntry_new(material_code, consumption_ratio) ==
    [material_code |-> material_code, consumption_ratio |-> consumption_ratio]

\* Purchase::new
Purchase_new(product_name, unit_price, quantity, freight_code) ==
    [product_name |-> product_name, unit_price |-> unit_price, quantity |-> quantity,
     freight_code |-> freight_code]

\* a variant that checks the first character and the length only
FreightMaster_new_prefix_only(freight_code, pattern_name, kg_unit_price, valid_from, valid_to) ==
    IF ~(freight_code # <<>> /\ freight_code[1] = 84) \/ Len(freight_code) # 5
    THEN Err("ValidationError")
    ELSE Ok([freight_code |-> freight_code, pattern_name |-> pattern_name,
             kg_unit_price |-> kg_unit_price, valid_from |-> valid_from,
             valid_to |-> valid_to])

\* FreightMaster::new : the code is 'T' and four ASCII digits; None is <<>>
FreightMaster_new(freight_code, pattern_name, kg_unit_price, valid_from, valid_to) ==
    IF ~(freight_code # <<>> /\ freight_code[1] = 84) \/ Len(freight_code) # 5
    THEN Err("ValidationError")
    ELSE IF ~AllDigits(SubSeq(freight_code, 2, Len(freight_code)))
    THEN Err("ValidationError")
    ELSE Ok([freight_code |-> freight_code, pattern_name |-> pattern_name,
             kg_unit_price |-> kg_unit_price, valid_from |-> valid_from,
             valid_to |-> valid_to])

(***************************************************************************)
(* The repository lookups (HashMap::get(..).cloned().ok_or_else(..)).      *)
(***************************************************************************)
\* FormulaRepository::find_by_product_code
find_by_product_code(repo, product_code) ==
    IF product_code \in DOMAIN repo THEN Ok(repo[product_code]) ELSE Err("NotFound")

\* a variant of the lookup that substitutes an empty purchase for a missing one
find_latest_price_or_default(repo, product_code) ==
    IF product_code \in DOMAIN repo THEN Ok(repo[product_code])
    ELSE Ok(Purchase_new(<<>>, 0, 0, DirectPrice(0)))

\* PurchaseRepository::find_latest_price
find_latest_price(repo, product_code) ==
    IF product_code \in DOMAIN repo THEN Ok(repo[product_code]) ELSE Err("NotFound")

\* FreightMasterRepository::find_by_code
find_by_code(repo, freight_code) ==
    IF freight_code \in DOMAIN repo THEN Ok(repo[freight_code]) ELSE Err("NotFound")

(***************************************************************************)
(* MaterialCostCalculationService::calculate_material_consumption.         *)
(***************************************************************************)
\* the decimal digits of a natural number
RECURSIVE DigitsOf(_)
DigitsOf(n) ==
    IF n < 10 THEN <<48 + n>> ELSE DigitsOf(n \div 10) \o <<48 + (n % 10)>>

\* format!("{:.2}", price) of a whole, non-negative price: its digits and ".00"
FormatFixed2(price) == DigitsOf(price) \o <<46, 48, 48>>

\* a variant that looks every freight code up in the freight master
freight_kg_price_of_master_only(purchase, repo) ==
    LET freight_master == find_by_code(repo, purchase.freight_code.code)
    IN  IF ~freight_master.ok THEN Err(freight_master.err)
        ELSE Ok(freight_master.value.kg_unit_price)

\* the freight kg price of a purchase: the direct price, or the kg_unit_price
\* of the freight master found under the code
freight_kg_price_of(purchase, repo) ==
    IF purchase.freight_code.tag = "DirectPrice"
    THEN Ok(purchase.freight_code.price)
    ELSE LET freight_master == find_by_code(repo, purchase.freight_code.code)
         IN  IF ~freight_master.ok THEN Err(freight_master.err)
             ELSE Ok(freight_master.value.kg_unit_price)

\* the codes handed to find_by_code while the freight kg price is resolved
freight_lookups_of(purchase) ==
    IF purchase.freight_code.tag = "Code" THEN <<purchase.freight_code.code>> ELSE <<>>

\* the freight code as a string, for logging
freight_code_str_of(purchase) ==
    IF purchase.freight_code.tag = "DirectPrice"
    THEN FormatFixed2(purchase.freight_code.price)
    ELSE purchase.freight_code.code

\* a variant that charges the freight of the whole purchased lot
material_freight_of_purchase_lot(freight_kg_price, consumption_qty, purchase) ==
    Amount_new(freight_kg_price * purchase.quantity)

\* the freight of one material: freight kg price times consumed quantity
material_freight_of(freight_kg_price, consumption_qty, purchase) ==
    Amount_new(freight_kg_price * consumption_qty)

\* a variant that embeds the freight in the unit price
total_cost_of_with_freight(purchase, consumption_qty, freight_kg_price) ==
    Amount_multiply(purchase.unit_price + freight_kg_price, Quantity_value(consumption_qty))

\* the cost of one material: unit price times consumed quantity, no freight
total_cost_of(purchase, consumption_qty, freight_kg_price) ==
    Amount_multiply(purchase.unit_price, Quantity_value(consumption_qty))

\* a variant that takes the ratio itself as the consumed quantity
consumption_qty_of_ratio_only(prod, formula) ==
    Quantity_new(formula.consumption_ratio)

\* the consumed quantity of a line: production quantity times consumption ratio
consumption_qty_of(prod, formula) ==
    Quantity_new(prod.quantity * formula.consumption_ratio)

\* the loop over the formula lines; `?` returns the first error.  The value
\* is [result, freight_calls]: the Result and the find_by_code calls made.
RECURSIVE consumption_loop(_, _, _, _, _, _, _)
consumption_loop(prod, formulas, purchases, freights, consumptions, total_freight, calls) ==
    IF formulas = <<>>
    THEN [result |-> Ok([consumptions |-> consumptions,
                         total_freight_cost |-> total_freight]),
          freight_calls |-> calls]
    ELSE LET formula == Head(formulas)
             consumption_qty == consumption_qty_of(prod, formula)
             purchase == find_latest_price(purchases, formula.material_code)
             freight_kg_price == freight_kg_price_of(purchase.value, freights)
             calls_after == calls \o freight_lookups_of(purchase.value)
             freight_code_str == freight_code_str_of(purchase.value)
             material_freight == material_freight_of(freight_kg_price.value,
                                                     consumption_qty.value, purchase.value)
             total_cost == total_cost_of(purchase.value, consumption_qty.value,
                                         freight_kg_price.value)
         IN  IF ~consumption_qty.ok
             THEN [result |-> Err(consumption_qty.err), freight_calls |-> calls]
             ELSE IF ~purchase.ok
             THEN [result |-> Err(purchase.err), freight_calls |-> calls]
             ELSE IF ~freight_kg_price.ok
             THEN [result |-> Err(freight_kg_price.err), freight_calls |-> calls_after]
             ELSE IF ~material_freight.ok
             THEN [result |-> Err(material_freight.err), freight_calls |-> calls_after]
             ELSE consumption_loop(
                    prod, Tail(formulas), purchases, freights,
                    Append(consumptions,
                           [material_code |-> formula.material_code,
                            material_name |-> purchase.value.product_name,
                            quantity |-> consumption_qty.value,
                            unit_price |-> purchase.value.unit_price,
                            total_cost |-> total_cost,
                            freight_cost |-> material_freight.value,
                            purchase_quantity |-> purchase.value.quantity,
                            freight_code_str |-> freight_code_str,
                            freight_kg_price |-> freight_kg_price.value]),
                    Amount_add(total_freight, material_freight.value),
                    calls_after)

calculate_material_consumption(prod, formulas_repo, purchases, freights) ==
    LET formulas == find_by_product_code(formulas_repo, prod.product_code)
    IN  IF ~formulas.ok
        THEN [result |-> Err(formulas.err), freight_calls |-> <<>>]
        ELSE consumption_loop(prod, formulas.value, purchases, freights,
                              <<>>, Amount_zero, <<>>)

\* a variant that adds each line's freight to the raw material cost
RECURSIVE calculate_raw_material_cost_with_freight(_)
calculate_raw_material_cost_with_freight(consumptions) ==
    IF consumptions = <<>> THEN Amount_zero
    ELSE Amount_add(calculate_raw_material_cost_with_freight(
                        SubSeq(consumptions, 1, Len(consumptions) - 1)),
                    consumptions[Len(consumptions)].total_cost
                        + consumptions[Len(consumptions)].freight_cost)

\* calculate_raw_material_cost : the left fold of add over total_cost
RECURSIVE calculate_raw_material_cost(_)
calculate_raw_material_cost(consumptions) ==
    IF consumptions = <<>> THEN Amount_zero
    ELSE Amount_add(calculate_raw_material_cost(
                        SubSeq(consumptions, 1, Len(consumptions) - 1)),
                    consumptions[Len(consumptions)].total_cost)

\* a variant that leaves the cost per kilogram unconverted
calculate_unit_cost_per_kg(raw_material_cost, total_consumption_kg) ==
    IF total_consumption_kg = 0 THEN Amount_zero
    ELSE LET r == Amount_new(F64Div(raw_material_cost, total_consumption_kg))
         IN  IF r.ok THEN r.value ELSE Amount_zero

\* calculate_unit_cost : yen per tonne; unwrap_or_else turns a failed
\* Amount::new into Amount::zero
calculate_unit_cost(raw_material_cost, total_consumption_kg) ==
    IF total_consumption_kg = 0 THEN Amount_zero
    ELSE LET unit_cost_per_kg == F64Div(raw_material_cost, total_consumption_kg)
             r == Amount_new(unit_cost_per_kg * 1000)
         IN  IF r.ok THEN r.value ELSE Amount_zero

\* a variant that ignores the yield rate
calculate_yield_cost_unscaled(raw_material_cost, yield_rate) == raw_material_cost

\* calculate_yield_cost
calculate_yield_cost(raw_material_cost, yield_rate) ==
    Amount_multiply(raw_material_cost, yield_rate)

\* a variant that leaves the freight out of the total
calculate_total_material_cost_without_freight(yield_cost, coagulant_cost, clay_treatment_cost, freight_cost) ==
    Amount_add(Amount_add(yield_cost, coagulant_cost), clay_treatment_cost)

\* calculate_total_material_cost
calculate_total_material_cost(yield_cost, coagulant_cost, clay_treatment_cost, freight_cost) ==
    Amount_add(Amount_add(Amount_add(yield_cost, coagulant_cost), clay_treatment_cost),
               freight_cost)

(***************************************************************************)
(* Inputs of the history pipeline: the cells of the transaction sheets.    *)
(***************************************************************************)
\* "2024-2-1", "2024-10-1", and the invalid "2023-02-29"
DateInputs ==
    { <<50, 48, 50, 52, 45, 50, 45, 49>>,
      <<50, 48, 50, 52, 45, 49, 48, 45, 49>>,
      <<50, 48, 50, 51, 45, 48, 50, 45, 50, 57>> }

\* "P1", "P2", and the blank " "
ProductCodeInputs == { <<80, 49>>, <<80, 50>>, <<32>> }

\* "x"
ProductNameInputs == { <<120>> }

QuantityInputs == {0 - 2, 0, 3}

(***************************************************************************)
(* The history pipeline.                                                   *)
(***************************************************************************)
NoResult == [ok |-> FALSE, value |-> <<>>, err |-> "not run"]

\* no constructor or pure function has been called, no Amount is held
NoCall == [fn |-> "none", args |-> <<>>, result |-> NoResult]

ValueIdle ==
    /\ call = NoCall
    /\ amount = NoResult

\* no interactor is executing
ExecIdle ==
    /\ found = NoResult
    /\ port = <<>>
    /\ exec = NoResult
    /\ epc = "idle"

\* ExcelInventoryTransactionRepository::new reading one row of a sheet
PushTransaction(date_str, inventory_type, product_code_str, product_name, quantity) ==
    LET transaction_date == TransactionDate_new(date_str)
        product_code == ProductCode_new(product_code_str)
        qty == Quantity_new(quantity)
    IN  /\ hpc = "load"
        /\ Len(transactions) < MaxTx
        /\ transaction_date.ok
        /\ product_code.ok
        /\ qty.ok
        /\ transactions' = Append(transactions,
                InventoryTransaction_new(transaction_date.value, inventory_type,
                                         product_code.value, product_name, qty.value))
        /\ UNCHANGED <<history, history_again, hpc>>
        /\ UNCHANGED costVars
        /\ UNCHANGED <<valueVars, execVars>>

\* CreateInventoryHistoryInteractor::execute calling create_history on the
\* repository's transactions
CreateHistory ==
    /\ hpc = "load"
    /\ history' = create_history(transactions)
    /\ hpc' = "done"
    /\ UNCHANGED <<transactions, history_again>>
    /\ UNCHANGED costVars
    /\ UNCHANGED <<valueVars, execVars>>

\* create_history called once more on a clone of the same transactions
RecreateHistory(random_state) ==
    /\ hpc = "done"
    /\ history_again' = create_history_with(transactions, random_state)
    /\ hpc' = "again"
    /\ UNCHANGED <<transactions, history>>
    /\ UNCHANGED costVars
    /\ UNCHANGED <<valueVars, execVars>>

CostIdle ==
    /\ production = <<>>
    /\ formula_repo = <<>>
    /\ purchase_repo = <<>>
    /\ freight_repo = <<>>
    /\ cost = NoResult
    /\ freight_calls = <<>>
    /\ result_dto = <<>>
    /\ cpc = "idle"

InitHistory ==
    /\ transactions = <<>>
    /\ history = NoResult
    /\ history_again = NoResult
    /\ hpc = "load"
    /\ CostIdle
    /\ ValueIdle
    /\ ExecIdle

NextHistory ==
    \/ \E d \in DateInputs, t \in InventoryType, c \in ProductCodeInputs,
          n \in ProductNameInputs, q \in QuantityInputs :
            PushTransaction(d, t, c, n, q)
    \/ CreateHistory
    \/ \E random_state \in {1, 2} : RecreateHistory(random_state)

SpecHistory == InitHistory /\ [][NextHistory]_vars

(***************************************************************************)
(* Inputs of the cost pipeline: the rows of the master and purchase sheets.*)
(***************************************************************************)
\* "P1"
ProducedCodes == { <<80, 49>> }

\* "M1", "M2"
MaterialCodes == { <<77, 49>>, <<77, 50>> }

\* "T0001", "T0002"
MasterCodes == { <<84, 48, 48, 48, 49>>, <<84, 48, 48, 48, 50>> }

ProductionQuantities == {0, 10}
ConsumptionRatios == {0, 2}
UnitPrices == {3, 7}
PurchaseQuantities == {100, 200}
DirectPrices == {5}
MasterKgPrices == {4, 6}

\* "2024-01-01"
MasterValidFrom == <<50, 48, 50, 52, 45, 48, 49, 45, 48, 49>>

\* 0.0, 0.5, 1.0
YieldRates == { [num |-> 0, den |-> 1], [num |-> 1, den |-> 2], [num |-> 1, den |-> 1] }
CoagulantCosts == {100}
ClayTreatmentCosts == {50}

Productions ==
    { Production_new(ProductCode_new(c).value, Quantity_new(q).value,
                     YieldRate_new(y).value, Amount_new(g).value, Amount_new(t).value) :
        c \in ProducedCodes, q \in ProductionQuantities, y \in YieldRates,
        g \in CoagulantCosts, t \in ClayTreatmentCosts }

FormulaEntries ==
    { FormulaEntry_new(ProductCode_new(m).value, r) :
        m \in MaterialCodes, r \in ConsumptionRatios }

Recipes == UNION { [1..n -> FormulaEntries] : n \in 0..MaxLines }

FreightCodes == { DirectPrice(p) : p \in DirectPrices } \cup { Code(c) : c \in MasterCodes }

Purchases ==
    { Purchase_new(<<120>>, Amount_new(u).value, Quantity_new(q).value, f) :
        u \in UnitPrices, q \in PurchaseQuantities, f \in FreightCodes }

\* the masters registered under their own code; "T0002" is never registered
RegisteredCodes == { <<84, 48, 48, 48, 49>> }

FreightMasterOf(code, price) ==
    FreightMaster_new(code, <<120>>, Amount_new(price).value,
                      TransactionDate_new(MasterValidFrom).value, <<>>).value

FormulaRepos == UNION { [S -> Recipes] : S \in SUBSET ProducedCodes }
PurchaseRepos == UNION { [S -> Purchases] : S \in SUBSET MaterialCodes }
FreightRepos ==
    UNION { { [c \in S |-> FreightMasterOf(c, price[c])] : price \in [S -> MasterKgPrices] } :
              S \in SUBSET RegisteredCodes }

(***************************************************************************)
(* The cost pipeline.                                                      *)
(***************************************************************************)
\* the sum of the consumed quantities (iter().map(quantity.value()).sum())
RECURSIVE total_consumption_kg_of(_)
total_consumption_kg_of(consumptions) ==
    IF consumptions = <<>> THEN 0
    ELSE consumptions[1].quantity + total_consumption_kg_of(Tail(consumptions))

\* the figures the interactor computes from a batch and puts in the DTO
result_dto_of(prod, batch) ==
    LET raw_material_cost == calculate_raw_material_cost(batch.consumptions)
        total_consumption_kg == total_consumption_kg_of(batch.consumptions)
        unit_cost == calculate_unit_cost(raw_material_cost, total_consumption_kg)
        yield_cost == calculate_yield_cost(raw_material_cost, prod.yield_rate)
        total_material_cost ==
            calculate_total_material_cost(yield_cost, prod.coagulant_cost,
                                          prod.clay_treatment_cost,
                                          batch.total_freight_cost)
    IN  [raw_material_cost |-> raw_material_cost,
         unit_cost |-> unit_cost,
         yield_cost |-> yield_cost,
         coagulant_cost |-> prod.coagulant_cost,
         clay_treatment_cost |-> prod.clay_treatment_cost,
         freight_cost |-> batch.total_freight_cost,
         total_material_cost |-> total_material_cost]

\* CalculateMaterialCostInteractor::execute for one production: the call of
\* calculate_material_consumption, then the figures of the result DTO
CalculateMaterialConsumption ==
    /\ cpc = "ready"
    /\ LET r == calculate_material_consumption(production, formula_repo,
                                               purchase_repo, freight_repo)
       IN  /\ cost' = r.result
           /\ freight_calls' = r.freight_calls
           /\ result_dto' = IF r.result.ok
                               THEN result_dto_of(production, r.result.value)
                               ELSE result_dto
    /\ cpc' = "done"
    /\ UNCHANGED <<production, formula_repo, purchase_repo, freight_repo>>
    /\ UNCHANGED historyVars
    /\ UNCHANGED <<valueVars, execVars>>

HistoryIdle ==
    /\ transactions = <<>>
    /\ history = NoResult
    /\ history_again = NoResult
    /\ hpc = "idle"

InitCost ==
    /\ production \in Productions
    /\ formula_repo \in FormulaRepos
    /\ purchase_repo \in PurchaseRepos
    /\ freight_repo \in FreightRepos
    /\ cost = NoResult
    /\ freight_calls = <<>>
    /\ result_dto = <<>>
    /\ cpc = "ready"
    /\ HistoryIdle
    /\ ValueIdle
    /\ ExecIdle

NextCost == CalculateMaterialConsumption

SpecCost == InitCost /\ [][NextCost]_vars

(***************************************************************************)
(* Calls of the constructors and of the pure functions: the initial state  *)
(* draws the function and its arguments from the sets below, and the       *)
(* action of the function applies it.                                      *)
(***************************************************************************)
\* the constructor inputs: negative, zero and positive
NumberInputs == {-100, -1, 0, 1, 50, 5000}

\* the raw material costs and consumed kilograms of test_unit_cost_calculation,
\* and a negative weight; only pairs whose quotient is whole are drawn
UnitCostRaws == {0, 5000, 7500, 12000}
UnitCostKgs == {-100, -50, 0, 50, 80, 100}
UnitCostInputs ==
    { <<Amount_new(p[1]).value, p[2]>> :
        p \in { q \in UnitCostRaws \X UnitCostKgs : q[2] = 0 \/ q[1] % Abs(q[2]) = 0 } }

\* a caller constructing a Quantity
CallQuantityNew ==
    /\ call.fn = "Quantity::new"
    /\ call.result = NoResult
    /\ call' = [call EXCEPT !.result = Quantity_new(call.args[1])]
    /\ UNCHANGED <<amount, historyVars, costVars, execVars>>

\* a caller constructing an Amount
CallAmountNew ==
    /\ call.fn = "Amount::new"
    /\ call.result = NoResult
    /\ call' = [call EXCEPT !.result = Amount_new(call.args[1])]
    /\ UNCHANGED <<amount, historyVars, costVars, execVars>>

\* a caller computing a unit cost; the function returns an Amount, which
\* the caller can only take as a success
CallCalculateUnitCost ==
    /\ call.fn = "calculate_unit_cost"
    /\ call.result = NoResult
    /\ call' = [call EXCEPT !.result = Ok(calculate_unit_cost(call.args[1], call.args[2]))]
    /\ UNCHANGED <<amount, historyVars, costVars, execVars>>

\* "T0001", "150.5", "0", "-10", "ABC123", "T001", "A0001", "", "  T0001
\* ", "NaN", "nan", "inf", "-inf", "1e2", "-0", "T00012", "T00A1", "t0001",
\* ".5", "5.", ".", "+5", "-", "1e", "T", " 12 ", "-1.5", "T9999", "1.50",
\* "2e-1", "-nan", "T 001"
FreightCodeInputs ==
    {
      <<84, 48, 48, 48, 49>>,
      <<49, 53, 48, 46, 53>>,
      <<48>>,
      <<45, 49, 48>>,
      <<65, 66, 67, 49, 50, 51>>,
      <<84, 48, 48, 49>>,
      <<65, 48, 48, 48, 49>>,
      <<>>,
      <<32, 32, 84, 48, 48, 48, 49, 32, 32>>,
      <<78, 97, 78>>,
      <<110, 97, 110>>,
      <<105, 110, 102>>,
      <<45, 105, 110, 102>>,
      <<49, 101, 50>>,
      <<45, 48>>,
      <<84, 48, 48, 48, 49, 50>>,
      <<84, 48, 48, 65, 49>>,
      <<116, 48, 48, 48, 49>>,
      <<46, 53>>,
      <<53, 46>>,
      <<46>>,
      <<43, 53>>,
      <<45>>,
      <<49, 101>>,
      <<84>>,
      <<32, 49, 50, 32>>,
      <<45, 49, 46, 53>>,
      <<84, 57, 57, 57, 57>>,
      <<49, 46, 53, 48>>,
      <<50, 101, 45, 49>>,
      <<45, 110, 97, 110>>,
      <<84, 32, 48, 48, 49>>
    }

\* a caller constructing a FreightCode
CallFreightCodeNew ==
    /\ call.fn = "FreightCode::new"
    /\ call.result = NoResult
    /\ call' = [call EXCEPT !.result = FreightCode_new(call.args[1])]
    /\ UNCHANGED <<amount, historyVars, costVars, execVars>>

\* the dates year{sep}month{sep}day, month and day written with or without
\* a leading zero, around the limits of the year, the month and the day
DateYears == {1899, 1900, 2000, 2023, 2024, 2100, 2101}
DateMonths == {0, 1, 2, 4, 12, 13}
DateDays == {0, 1, 28, 29, 30, 31, 32}
DateSeparators == {45, 47, 46}

Pad2(n, padded) == IF padded /\ n < 10 THEN <<48>> \o DigitsOf(n) ELSE DigitsOf(n)

WrittenDates ==
    { DigitsOf(y) \o <<sep>> \o Pad2(m, padded) \o <<sep>> \o Pad2(d, padded) :
        y \in DateYears, m \in DateMonths, d \in DateDays, sep \in DateSeparators,
        padded \in BOOLEAN }

\* "", "2024-01", "2024-1/5", "2024.1-5", "+2024/1/5", "2024/+1/5",
\* "2024-1-+5", "-2024/1/5", "20240115", "2024-01-15-1", " 2024-01-15 ",
\* "abcd-01-15", "2024--15", "2024-01-1x", "02024-1-5", "2024-001-015",
\* "24-1-5"
OtherDateInputs ==
    {
      <<>>,
      <<50, 48, 50, 52, 45, 48, 49>>,
      <<50, 48, 50, 52, 45, 49, 47, 53>>,
      <<50, 48, 50, 52, 46, 49, 45, 53>>,
      <<43, 50, 48, 50, 52, 47, 49, 47, 53>>,
      <<50, 48, 50, 52, 47, 43, 49, 47, 53>>,
      <<50, 48, 50, 52, 45, 49, 45, 43, 53>>,
      <<45, 50, 48, 50, 52, 47, 49, 47, 53>>,
      <<50, 48, 50, 52, 48, 49, 49, 53>>,
      <<50, 48, 50, 52, 45, 48, 49, 45, 49, 53, 45, 49>>,
      <<32, 50, 48, 50, 52, 45, 48, 49, 45, 49, 53, 32>>,
      <<97, 98, 99, 100, 45, 48, 49, 45, 49, 53>>,
      <<50, 48, 50, 52, 45, 45, 49, 53>>,
      <<50, 48, 50, 52, 45, 48, 49, 45, 49, 120>>,
      <<48, 50, 48, 50, 52, 45, 49, 45, 53>>,
      <<50, 48, 50, 52, 45, 48, 48, 49, 45, 48, 49, 53>>,
      <<50, 52, 45, 49, 45, 53>>
    }

\* a caller constructing a TransactionDate
CallTransactionDateNew ==
    /\ call.fn = "TransactionDate::new"
    /\ call.result = NoResult
    /\ call' = [call EXCEPT !.result = TransactionDate_new(call.args[1])]
    /\ UNCHANGED <<amount, historyVars, costVars, execVars>>

\* -0.1, 0.0, 0.5, 0.95, 1.0, 1.5 (the values of the tests), 2.0, NaN and
\* the infinities
YieldRateInputs ==
    { [num |-> 0 - 1, den |-> 10], [num |-> 0, den |-> 1], [num |-> 1, den |-> 2],
      [num |-> 19, den |-> 20], [num |-> 1, den |-> 1], [num |-> 3, den |-> 2],
      [num |-> 2, den |-> 1], F64NaN, F64Inf(FALSE), F64Inf(TRUE) }

\* a caller constructing a YieldRate
CallYieldRateNew ==
    /\ call.fn = "YieldRate::new"
    /\ call.result = NoResult
    /\ call' = [call EXCEPT !.result = YieldRate_new(call.args[1])]
    /\ UNCHANGED <<amount, historyVars, costVars, execVars>>

\* the pattern name "x", the price 150 and the date "2024-01-01" of a master
FreightMasterArgs(freight_code) ==
    <<freight_code, <<120>>, Amount_new(150).value,
      TransactionDate_new(MasterValidFrom).value, <<>>>>

\* a caller constructing a FreightMaster
CallFreightMasterNew ==
    /\ call.fn = "FreightMaster::new"
    /\ call.result = NoResult
    /\ call' = [call EXCEPT !.result =
                  FreightMaster_new(call.args[1], call.args[2], call.args[3],
                                    call.args[4], call.args[5])]
    /\ UNCHANGED <<amount, historyVars, costVars, execVars>>

(***************************************************************************)
(* excel_serial_to_date and the chrono date arithmetic it uses.  A date is *)
(* [year, month, day]; its day number counts the days since 1970-01-01 in  *)
(* the proleptic Gregorian calendar.                                       *)
(***************************************************************************)
\* the day number of a date (NaiveDate::from_ymd_opt)
DaysFromCivil(year, month, day) ==
    LET y == IF month <= 2 THEN year - 1 ELSE year
        era == y \div 400
        yoe == y - era * 400
        mp == (month + 9) % 12
        doy == (153 * mp + 2) \div 5 + day - 1
        doe == yoe * 365 + yoe \div 4 - yoe \div 100 + doy
    IN  era * 146097 + doe - 719468

\* the date of a day number (NaiveDate + Duration::days)
CivilFromDays(days) ==
    LET z == days + 719468
        era == z \div 146097
        doe == z - era * 146097
        yoe == (doe - doe \div 1460 + doe \div 36524 - doe \div 146096) \div 365
        doy == doe - (365 * yoe + yoe \div 4 - yoe \div 100)
        mp == (5 * doy + 2) \div 153
        month == IF mp < 10 THEN mp + 3 ELSE mp - 9
        year == yoe + era * 400 + (IF month <= 2 THEN 1 ELSE 0)
    IN  [year |-> year, month |-> month,
         day |-> doy - (153 * mp + 2) \div 5 + 1]

\* f64 as i64 : the fraction is dropped, towards zero
F64AsI64(v) ==
    IF v.num < 0 THEN 0 - ((0 - v.num) \div v.den) ELSE v.num \div v.den

\* format!("{:0width$}", n) of a non-negative n
RECURSIVE ZeroPadded(_, _)
ZeroPadded(n, width) ==
    IF Len(DigitsOf(n)) >= width THEN DigitsOf(n)
    ELSE <<48>> \o SubSeq(ZeroPadded(n, width - 1), 1, width - 1)

\* format!("{:04}-{:02}-{:02}", year, month, day)
FormatDate(date) ==
    ZeroPadded(date.year, 4) \o <<45>> \o ZeroPadded(date.month, 2)
        \o <<45>> \o ZeroPadded(date.day, 2)

\* excel_serial_to_date
excel_serial_to_date(serial) ==
    LET days == IF serial.num > 59 * serial.den
                THEN [num |-> serial.num - 2 * serial.den, den |-> serial.den]
                ELSE [num |-> serial.num - serial.den, den |-> serial.den]
        base_date == DaysFromCivil(1899, 12, 30)
        target_date == CivilFromDays(base_date + F64AsI64(days))
    IN  FormatDate(target_date)

\* the serials of the first days of 1900, of the days around the serial 60,
\* of 1901-01-01, and of days of 2000 and 2024 around the end of February
WholeSerials ==
    {1, 2, 3, 31, 32, 59, 60, 61, 62, 63, 366, 367, 368, 36526, 36585, 36586, 36587,
     45292, 45306, 45350, 45351, 45352, 45657, 45658}

\* the whole serials, and a date cell with a time of day (45306.75)
ExcelSerials ==
    { [num |-> n, den |-> 1] : n \in WholeSerials } \cup { [num |-> 181227, den |-> 4] }

\* get_cell_date_string converting the serial of a date cell; the function
\* returns a String, which the caller can only take as a success
CallExcelSerialToDate ==
    /\ call.fn = "excel_serial_to_date"
    /\ call.result = NoResult
    /\ call' = [call EXCEPT !.result = Ok(excel_serial_to_date(call.args[1]))]
    /\ UNCHANGED <<amount, historyVars, costVars, execVars>>

\* a function and its arguments, not applied yet
Pending(fn, args) == [fn |-> fn, args |-> args, result |-> NoResult]

PendingCalls ==
    { Pending("Quantity::new", <<v>>) : v \in NumberInputs } \cup
    { Pending("Amount::new", <<v>>) : v \in NumberInputs } \cup
    { Pending("calculate_unit_cost", p) : p \in UnitCostInputs } \cup
    { Pending("FreightCode::new", <<s>>) : s \in FreightCodeInputs } \cup
    { Pending("TransactionDate::new", <<s>>) : s \in WrittenDates \cup OtherDateInputs } \cup
    { Pending("YieldRate::new", <<v>>) : v \in YieldRateInputs } \cup
    { Pending("excel_serial_to_date", <<v>>) : v \in ExcelSerials } \cup
    { Pending("FreightMaster::new", FreightMasterArgs(s)) : s \in FreightCodeInputs }

InitCall ==
    /\ HistoryIdle
    /\ CostIdle
    /\ ExecIdle
    /\ call \in PendingCalls
    /\ amount = NoResult

NextCall ==
    \/ CallQuantityNew
    \/ CallAmountNew
    \/ CallCalculateUnitCost
    \/ CallFreightCodeNew
    \/ CallTransactionDateNew
    \/ CallYieldRateNew
    \/ CallFreightMasterNew
    \/ CallExcelSerialToDate

SpecCall == InitCall /\ [][NextCall]_vars

(***************************************************************************)
(* A caller chaining the operations of Amount.  The factors and divisors   *)
(* are drawn so that every result is whole, and no divisor is zero.        *)
(***************************************************************************)
MaxAmount == 300

AmountInputs == {-5, 0, 5, 100}
\* -1.0, 0.5, 2.0, 2.5 (test_amount_multiply)
AmountRatios == { [num |-> 0 - 1, den |-> 1], [num |-> 1, den |-> 2],
                  [num |-> 2, den |-> 1], [num |-> 5, den |-> 2] }
\* -2.0, 4.0 (test_amount_divide), 5.0
AmountDivisors == {-2, 4, 5}

\* let a = Amount::new(value) : on a failure the caller holds no Amount
AmountNew(value) ==
    /\ amount' = Amount_new(value)
    /\ UNCHANGED <<call, historyVars, costVars, execVars>>

\* let a = Amount::zero()
AmountZero ==
    /\ amount' = Ok(Amount_zero)
    /\ UNCHANGED <<call, historyVars, costVars, execVars>>

\* let a = a.add(&Amount::new(value)?)
AmountAdd(value) ==
    /\ amount.ok
    /\ Amount_new(value).ok
    /\ Abs(Amount_add(amount.value, Amount_new(value).value)) <= MaxAmount
    /\ amount' = Ok(Amount_add(amount.value, Amount_new(value).value))
    /\ UNCHANGED <<call, historyVars, costVars, execVars>>

\* let a = a.multiply(ratio)
AmountMultiply(ratio) ==
    /\ amount.ok
    /\ (amount.value * ratio.num) % ratio.den = 0
    /\ Abs(Amount_multiply(amount.value, ratio)) <= MaxAmount
    /\ amount' = Ok(Amount_multiply(amount.value, ratio))
    /\ UNCHANGED <<call, historyVars, costVars, execVars>>

\* let a = a.divide_by(divisor)
AmountDivideBy(divisor) ==
    /\ amount.ok
    /\ amount.value % Abs(divisor) = 0
    /\ amount' = Ok(Amount_divide_by(amount.value, divisor))
    /\ UNCHANGED <<call, historyVars, costVars, execVars>>

InitAmount ==
    /\ HistoryIdle
    /\ CostIdle
    /\ ValueIdle
    /\ ExecIdle

NextAmount ==
    \/ \E v \in AmountInputs : AmountNew(v)
    \/ AmountZero
    \/ \E v \in AmountInputs : AmountAdd(v)
    \/ \E r \in AmountRatios : AmountMultiply(r)
    \/ \E d \in AmountDivisors : AmountDivideBy(d)

SpecAmount == InitAmount /\ [][NextAmount]_vars

(***************************************************************************)
(* CreateInventoryHistoryInteractor::execute and its output port.          *)
(***************************************************************************)
MaxRecords == 2

\* a call of a method of the output port with its arguments
PortCall(name, args) == [name |-> name, args |-> args]

\* InventoryType::as_str : the labels "生産", "仕入", "売上" as code points
InventoryType_as_str(inventory_type) ==
    IF inventory_type = "Production" THEN <<29983, 29987>>
    ELSE IF inventory_type = "Purchase" THEN <<20181, 20837>>
    ELSE <<22770, 19978>>

\* the InventoryHistoryRecordDto of a record
InventoryHistoryRecordDto_of(record) ==
    [date |-> record.date,
     inventory_type |-> InventoryType_as_str(record.inventory_type),
     product_code |-> record.product_code,
     product_name |-> record.product_name,
     base_quantity |-> record.base_quantity,
     change_quantity |-> record.change_quantity,
     balance |-> record.balance]

\* a variant of execute that finalizes the port after an error as well
history_execute_finalizing(found_transactions, finalize_result) ==
    LET start == <<PortCall("present_history_start", <<>>)>>
        records == create_history(found_transactions.value)
        failure == IF ~found_transactions.ok THEN found_transactions ELSE records
    IN  IF ~found_transactions.ok \/ ~records.ok
        THEN [port |-> start \o <<PortCall("present_history_error", <<failure.err>>),
                                  PortCall("finalize", <<>>)>>,
              result |-> Err(failure.err)]
        ELSE [port |-> start
                \o [k \in 1..Len(records.value) |->
                      PortCall("present_history_record",
                               <<InventoryHistoryRecordDto_of(records.value[k])>>)]
                \o <<PortCall("present_history_completion", <<Len(records.value)>>),
                     PortCall("finalize", <<>>)>>,
              result |-> IF finalize_result.ok THEN Ok(<<>>)
                         ELSE Err(finalize_result.err)]

\* CreateInventoryHistoryInteractor::execute : the calls on the output port
\* and the Result returned, for what find_all_transactions and finalize return
history_execute(found_transactions, finalize_result) ==
    LET start == <<PortCall("present_history_start", <<>>)>>
        records == create_history(found_transactions.value)
    IN  IF ~found_transactions.ok
        THEN [port |-> start \o <<PortCall("present_history_error",
                                           <<found_transactions.err>>)>>,
              result |-> Err(found_transactions.err)]
        ELSE IF ~records.ok
        THEN [port |-> start \o <<PortCall("present_history_error", <<records.err>>)>>,
              result |-> Err(records.err)]
        ELSE [port |-> start
                \o [k \in 1..Len(records.value) |->
                      PortCall("present_history_record",
                               <<InventoryHistoryRecordDto_of(records.value[k])>>)]
                \o <<PortCall("present_history_completion", <<Len(records.value)>>),
                     PortCall("finalize", <<>>)>>,
              result |-> IF finalize_result.ok THEN Ok(<<>>)
                         ELSE Err(finalize_result.err)]

\* the transactions of a repository: two dates, two products, the three
\* inventory types
TransactionSamples ==
    { InventoryTransaction_new(TransactionDate_new(d).value, t,
                               ProductCode_new(c).value, <<120>>, Quantity_new(3).value) :
        d \in {x \in DateInputs : TransactionDate_new(x).ok},
        c \in {x \in ProductCodeInputs : ProductCode_new(x).ok},
        t \in InventoryType }

\* what find_all_transactions returns: the transactions, or an error
FoundTransactions ==
    { Ok(txs) : txs \in UNION { [1..n -> TransactionSamples] : n \in 0..MaxRecords } }
        \cup { Err("RepositoryError") }

\* CreateInventoryHistoryInteractor::execute
ExecuteHistory(finalize_result) ==
    /\ epc = "history"
    /\ LET r == history_execute(found, finalize_result)
       IN  /\ port' = port \o r.port
           /\ exec' = r.result
    /\ epc' = "returned"
    /\ UNCHANGED found
    /\ UNCHANGED <<historyVars, costVars, valueVars>>

InitHistoryPort ==
    /\ found \in FoundTransactions
    /\ port = <<>>
    /\ exec = NoResult
    /\ epc = "history"
    /\ HistoryIdle
    /\ CostIdle
    /\ ValueIdle

\* finalize returns Ok(()) or an error
NextHistoryPort == \E f \in { Ok(<<>>), Err("IoError") } : ExecuteHistory(f)

SpecHistoryPort == InitHistoryPort /\ [][NextHistoryPort]_vars

(***************************************************************************)
(* CalculateMaterialCostInteractor::execute and its output port.           *)
(***************************************************************************)
MaxRows == 3

\* the row of the sheet a production was read from: after the header row
row_number_from_zero(idx) == idx + 1

row_number_of(idx) == idx + 2

\* the MaterialConsumptionDto of each consumption
MaterialConsumptionDtos_of(consumptions) ==
    [k \in 1..Len(consumptions) |->
        [material_code |-> consumptions[k].material_code,
         material_name |-> consumptions[k].material_name,
         quantity |-> Quantity_value(consumptions[k].quantity),
         unit_price |-> consumptions[k].unit_price,
         total_cost |-> consumptions[k].total_cost,
         freight_cost |-> consumptions[k].freight_cost,
         purchase_quantity |-> Quantity_value(consumptions[k].purchase_quantity),
         freight_code_str |-> consumptions[k].freight_code_str,
         freight_kg_price |-> consumptions[k].freight_kg_price]]

\* the MaterialCostResultDto of a production
MaterialCostResultDto_of(idx, production_row, batch) ==
    LET figures == result_dto_of(production_row, batch)
    IN  [row_number |-> row_number_of(idx),
         raw_material_cost |-> figures.raw_material_cost,
         unit_cost |-> figures.unit_cost,
         yield_cost |-> figures.yield_cost,
         coagulant_cost |-> figures.coagulant_cost,
         clay_treatment_cost |-> figures.clay_treatment_cost,
         freight_cost |-> figures.freight_cost,
         total_material_cost |-> figures.total_material_cost]

\* the calls of one iteration that ends normally
row_calls(idx, production_row, batch) ==
    <<PortCall("present_processing_row",
               <<row_number_of(idx), production_row.product_code>>),
      PortCall("present_material_consumptions",
               <<MaterialConsumptionDtos_of(batch.consumptions)>>),
      PortCall("present_calculation_result",
               <<MaterialCostResultDto_of(idx, production_row, batch)>>)>>

\* a variant of the loop that presents the error of a production and goes
\* on with the next one
RECURSIVE cost_execute_rows_skipping_errors(_, _, _, _, _, _)
cost_execute_rows_skipping_errors(productions, idx, formulas, purchases, freights, calls) ==
    IF idx = Len(productions)
    THEN [port |-> Append(calls, PortCall("present_completion", <<>>)),
          result |-> Ok(<<>>)]
    ELSE LET production_row == productions[idx + 1]
             r == calculate_material_consumption(production_row, formulas,
                                                 purchases, freights).result
         IN  cost_execute_rows_skipping_errors(
               productions, idx + 1, formulas, purchases, freights,
               IF ~r.ok
               THEN calls \o <<PortCall("present_processing_row",
                                        <<row_number_of(idx), production_row.product_code>>),
                               PortCall("present_error", <<r.err>>)>>
               ELSE calls \o row_calls(idx, production_row, r.value))

\* the loop of execute over the productions, from the production at idx
RECURSIVE cost_execute_rows(_, _, _, _, _, _)
cost_execute_rows(productions, idx, formulas, purchases, freights, calls) ==
    IF idx = Len(productions)
    THEN [port |-> Append(calls, PortCall("present_completion", <<>>)),
          result |-> Ok(<<>>)]
    ELSE LET production_row == productions[idx + 1]
             r == calculate_material_consumption(production_row, formulas,
                                                 purchases, freights).result
         IN  IF ~r.ok
             THEN [port |-> calls \o <<PortCall("present_processing_row",
                                                <<row_number_of(idx),
                                                  production_row.product_code>>),
                                       PortCall("present_error", <<r.err>>)>>,
                   result |-> Err(r.err)]
             ELSE cost_execute_rows(productions, idx + 1, formulas, purchases, freights,
                                    calls \o row_calls(idx, production_row, r.value))

\* CalculateMaterialCostInteractor::execute : the calls on the output port and
\* the Result returned, for what find_all returns and the three repositories
cost_execute(found_productions, formulas, purchases, freights) ==
    IF ~found_productions.ok
    THEN [port |-> <<PortCall("present_error", <<found_productions.err>>)>>,
          result |-> Err(found_productions.err)]
    ELSE IF found_productions.value = <<>>
    THEN [port |-> <<PortCall("present_no_data", <<>>)>>, result |-> Ok(<<>>)]
    ELSE cost_execute_rows(found_productions.value, 0, formulas, purchases, freights,
                           <<PortCall("present_calculation_start",
                                      <<Len(found_productions.value)>>)>>)

\* the rows of the production sheet: two products, two quantities
ProductionRows ==
    { Production_new(ProductCode_new(c).value, Quantity_new(q).value,
                     YieldRate_new([num |-> 1, den |-> 2]).value,
                     Amount_new(100).value, Amount_new(50).value) :
        c \in {x \in ProductCodeInputs : ProductCode_new(x).ok}, q \in {10, 20} }

\* what find_all returns: the productions, or an error
FoundProductions ==
    { Ok(ps) : ps \in UNION { [1..n -> ProductionRows] : n \in 0..MaxRows } }
        \cup { Err("RepositoryError") }

\* the recipes of the interactor's formula repository: the first product is
\* made of one material or of two, the second product has no recipe
RowFormulaRepos ==
    { [c \in ProducedCodes |-> <<FormulaEntry_new(ProductCode_new(<<77, 49>>).value, 2)>>],
      [c \in ProducedCodes |-> <<FormulaEntry_new(ProductCode_new(<<77, 49>>).value, 2),
                                 FormulaEntry_new(ProductCode_new(<<77, 50>>).value, 2)>>] }

\* its purchases: the first material only, with a direct freight price or
\* with the code of a master
RowPurchaseRepos ==
    { [m \in {<<77, 49>>} |->
         Purchase_new(<<120>>, Amount_new(3).value, Quantity_new(100).value, f)] :
      f \in {DirectPrice(5), Code(<<84, 48, 48, 48, 49>>)} }

\* CalculateMaterialCostInteractor::execute
ExecuteCost ==
    /\ epc = "cost"
    /\ LET r == cost_execute(found, formula_repo, purchase_repo, freight_repo)
       IN  /\ port' = port \o r.port
           /\ exec' = r.result
    /\ epc' = "returned"
    /\ UNCHANGED found
    /\ UNCHANGED <<historyVars, costVars, valueVars>>

InitCostPort ==
    /\ found \in FoundProductions
    /\ port = <<>>
    /\ exec = NoResult
    /\ epc = "cost"
    /\ production = <<>>
    /\ formula_repo \in RowFormulaRepos
    /\ purchase_repo \in RowPurchaseRepos
    /\ freight_repo \in FreightRepos
    /\ cost = NoResult
    /\ freight_calls = <<>>
    /\ result_dto = <<>>
    /\ cpc = "idle"
    /\ HistoryIdle
    /\ ValueIdle

SpecCostPort == InitCostPort /\ [][ExecuteCost]_vars

(***************************************************************************)
(* Vocabulary of the properties of the history pipeline.                   *)
(***************************************************************************)
\* the calendar value year*10000 + month*100 + day a valid date string denotes
CalendarValue(date) ==
    LET separator == IF Contains(date, 45) THEN 45
                     ELSE IF Contains(date, 47) THEN 47 ELSE 46
        parts == Split(date, separator)
    IN  ParseI32(parts[1]).value * 10000 + ParseU32(parts[2]).value * 100
          + ParseU32(parts[3]).value

\* the order of dates the specification states: calendar value, then string
ChronologicalCmp(a, b) ==
    IF CalendarValue(a) # CalendarValue(b)
    THEN IntCmp(CalendarValue(a), CalendarValue(b))
    ELSE StrCmp(a, b)

\* a record carries the fields of a transaction
RecordOf(record, transaction) ==
    /\ record.date = transaction.date
    /\ record.inventory_type = transaction.inventory_type
    /\ record.product_code = transaction.product_code
    /\ record.product_name = transaction.product_name
    /\ record.change_quantity = transaction.quantity

\* records lists txs, each once, in the stable order of the comparator
\* (date order date_cmp, then product code)
StableSorted(records, txs, date_cmp(_, _)) ==
    /\ Len(records) = Len(txs)
    /\ \E pi \in Permutations(1..Len(txs)) :
        /\ \A k \in 1..Len(txs) : RecordOf(records[k], txs[pi[k]])
        /\ \A i, j \in 1..Len(txs) :
            i < j =>
              LET by_date == date_cmp(txs[pi[i]].date, txs[pi[j]].date)
                  by_code == StrCmp(txs[pi[i]].product_code, txs[pi[j]].product_code)
              IN  \/ by_date < 0
                  \/ by_date = 0 /\ by_code < 0
                  \/ by_date = 0 /\ by_code = 0 /\ pi[i] < pi[j]

\* the signed quantity of a transaction
Signed(transaction) ==
    IF transaction.inventory_type = "Sales"
    THEN 0 - transaction.quantity
    ELSE transaction.quantity

\* the positions before k of the records of the product of records[k]
Preceding(records, k) ==
    {i \in 1..(k - 1) : records[i].product_code = records[k].product_code}

SetMax(S) == CHOOSE x \in S : \A y \in S : y <= x

\* the signed quantities of the product of position k, summed up to position n
RECURSIVE RunningSum(_, _, _)
RunningSum(txs, code, n) ==
    IF n = 0 THEN 0
    ELSE RunningSum(txs, code, n - 1)
           + (IF txs[n].product_code = code THEN Signed(txs[n]) ELSE 0)

HistoryDone == hpc \in {"done", "again"}

(***************************************************************************)
(* C1: create_history returns exactly the input transactions, each once,   *)
(* ordered by (date ascending, product code ascending lexically), and      *)
(* transactions with equal date and product code keep their input order.   *)
(* Date ascending is the order of the specification (calendar value, then  *)
(* string).                                                                *)
(***************************************************************************)
C1_SortedByDateThenCode ==
    HistoryDone =>
        /\ history.ok
        /\ StableSorted(history.value, transactions, ChronologicalCmp)

\* what the code does provide: the same statement in the order of the date
\* strings
SortStableInStringOrder ==
    HistoryDone =>
        /\ history.ok
        /\ StableSorted(history.value, transactions, StrCmp)

(***************************************************************************)
(* C2: for two constructed dates a and b, a strictly earlier calendar date *)
(* of a gives a < b, and the ledger of create_history is in chronological  *)
(* order.                                                                  *)
(***************************************************************************)
C2_DateOrderIsCalendarOrder ==
    /\ \A i, j \in 1..Len(transactions) :
         CalendarValue(transactions[i].date) < CalendarValue(transactions[j].date)
            => TransactionDate_cmp(transactions[i].date, transactions[j].date) < 0
    /\ HistoryDone /\ history.ok =>
         \A i, j \in 1..Len(history.value) :
            i < j => CalendarValue(history.value[i].date)
                        <= CalendarValue(history.value[j].date)

(***************************************************************************)
(* C3: in the output every record's base_quantity is the balance of the    *)
(* closest preceding record of the same product code, or 0 without one,    *)
(* and its balance is base_quantity plus the signed quantity of its        *)
(* transaction.                                                            *)
(***************************************************************************)
C3_BaseIsPreviousBalance ==
    HistoryDone /\ history.ok =>
        LET records == history.value
        IN  \A k \in 1..Len(records) :
              /\ records[k].base_quantity =
                    (IF Preceding(records, k) = {} THEN 0
                     ELSE records[SetMax(Preceding(records, k))].balance)
              /\ \/ /\ records[k].inventory_type = "Sales"
                    /\ records[k].balance
                         = records[k].base_quantity - records[k].change_quantity
                 \/ /\ records[k].inventory_type # "Sales"
                    /\ records[k].balance
                         = records[k].base_quantity + records[k].change_quantity

C3_Witness ==
    /\ HistoryDone /\ history.ok
    /\ \E k \in 1..Len(history.value) :
         /\ Preceding(history.value, k) # {}
         /\ history.value[k].base_quantity # 0
         /\ SetMax(Preceding(history.value, k)) < k - 1

(***************************************************************************)
(* C4: a Production or Purchase transaction raises the balance of its      *)
(* product by its quantity, a Sales transaction lowers it by its quantity, *)
(* and change_quantity is the transaction's quantity, never negative.      *)
(***************************************************************************)
C4_ChangeBySign ==
    HistoryDone /\ history.ok =>
        LET records == history.value
            sorted == sort_by(transactions)
        IN  /\ Len(records) = Len(sorted)
            /\ \A k \in 1..Len(records) :
                /\ sorted[k].inventory_type \in {"Production", "Purchase"} =>
                     records[k].balance - records[k].base_quantity = sorted[k].quantity
                /\ sorted[k].inventory_type = "Sales" =>
                     records[k].base_quantity - records[k].balance = sorted[k].quantity
                /\ records[k].change_quantity = sorted[k].quantity
                /\ records[k].change_quantity >= 0

C4_Witness ==
    /\ HistoryDone /\ history.ok
    /\ \E i, j, k \in 1..Len(history.value) :
         /\ history.value[i].inventory_type = "Production"
         /\ history.value[j].inventory_type = "Purchase"
         /\ history.value[k].inventory_type = "Sales"
         /\ history.value[k].change_quantity > 0
         /\ history.value[k].balance < history.value[k].base_quantity

(***************************************************************************)
(* C5: create_history succeeds on every list of constructed transactions,  *)
(* and a balance below zero is emitted unchanged, as base_quantity and as  *)
(* balance: each is the plain sum of the signed quantities so far.         *)
(***************************************************************************)
C5_NegativeBalanceKept ==
    HistoryDone =>
        /\ history.ok
        /\ LET records == history.value
               sorted == sort_by(transactions)
           IN  \A k \in 1..Len(records) :
                 /\ records[k].balance
                      = RunningSum(sorted, records[k].product_code, k)
                 /\ records[k].base_quantity
                      = RunningSum(sorted, records[k].product_code, k - 1)

C5_Witness ==
    /\ HistoryDone /\ history.ok
    /\ \E k \in 1..Len(history.value) :
         /\ history.value[k].base_quantity < 0
         /\ history.value[k].balance < history.value[k].base_quantity

(***************************************************************************)
(* Vocabulary of the properties of the cost pipeline.                      *)
(***************************************************************************)
CostDone == cpc = "done"

RecipeFound == production.product_code \in DOMAIN formula_repo

\* the recipe of the production (only read when RecipeFound)
Recipe == formula_repo[production.product_code]

PurchaseFound(line) == line.material_code \in DOMAIN purchase_repo

\* the purchase of a formula line (only read when PurchaseFound)
PurchaseOf(line) == purchase_repo[line.material_code]

\* the line's purchase names a freight master that is not registered
MasterMissing(line) ==
    /\ PurchaseOf(line).freight_code.tag = "Code"
    /\ PurchaseOf(line).freight_code.code \notin DOMAIN freight_repo

LineFails(line) == ~PurchaseFound(line) \/ MasterMissing(line)

\* the codes of the lines whose purchase carries Code(c), in recipe order
RECURSIVE CodesOfLines(_)
CodesOfLines(lines) ==
    IF lines = <<>> THEN <<>>
    ELSE (IF PurchaseOf(Head(lines)).freight_code.tag = "Code"
          THEN <<PurchaseOf(Head(lines)).freight_code.code>> ELSE <<>>)
         \o CodesOfLines(Tail(lines))

\* the purchase repositories that differ from repo in the quantities only
QuantityVariants(repo) ==
    { [c \in DOMAIN repo |-> [repo[c] EXCEPT !.quantity = q[c]]] :
        q \in [DOMAIN repo -> PurchaseQuantities] }

\* the purchase repositories that differ from repo in the freight codes only
FreightCodeVariants(repo) ==
    { [c \in DOMAIN repo |-> [repo[c] EXCEPT !.freight_code = f[c]]] :
        f \in [DOMAIN repo -> FreightCodes] }

RECURSIVE SumFreight(_)
SumFreight(consumptions) ==
    IF consumptions = <<>> THEN 0
    ELSE Head(consumptions).freight_cost + SumFreight(Tail(consumptions))

(***************************************************************************)
(* C6: calculate_material_consumption is all-or-nothing: a missing recipe, *)
(* a missing purchase of any line or a missing freight master of any Code  *)
(* line makes the call return that error and no MaterialCostResult, also   *)
(* when earlier lines were resolved.                                       *)
(***************************************************************************)
C6_AllOrNothing ==
    CostDone /\ (~RecipeFound \/ \E k \in 1..Len(Recipe) : LineFails(Recipe[k])) =>
        /\ ~cost.ok
        /\ cost.err = "NotFound"
        /\ cost.value = <<>>

C6_Witness ==
    /\ CostDone /\ ~cost.ok
    /\ RecipeFound
    /\ Len(Recipe) = 2
    /\ ~LineFails(Recipe[1])
    /\ production.quantity * Recipe[1].consumption_ratio > 0
    /\ LineFails(Recipe[2])

(***************************************************************************)
(* C7: the freight kg price of a line is p when its purchase carries       *)
(* DirectPrice(p), and the freight repository is not consulted for that    *)
(* line, so that a missing freight master cannot fail it; it is the        *)
(* kg_unit_price of the master found under c when the purchase carries     *)
(* Code(c).                                                                *)
(***************************************************************************)
C7_FreightKgPrice ==
    CostDone =>
        /\ cost.ok =>
            /\ Len(cost.value.consumptions) = Len(Recipe)
            /\ \A k \in 1..Len(Recipe) :
                LET freight_code == PurchaseOf(Recipe[k]).freight_code
                    got == cost.value.consumptions[k].freight_kg_price
                IN  /\ freight_code.tag = "DirectPrice" => got = freight_code.price
                    /\ freight_code.tag = "Code" =>
                         got = freight_repo[freight_code.code].kg_unit_price
            /\ freight_calls = CodesOfLines(Recipe)
        /\ ( /\ RecipeFound
             /\ \A k \in 1..Len(Recipe) :
                  /\ PurchaseFound(Recipe[k])
                  /\ PurchaseOf(Recipe[k]).freight_code.tag = "DirectPrice" )
           => cost.ok /\ freight_calls = <<>>

C7_Witness ==
    /\ CostDone /\ cost.ok
    /\ \E i, j \in 1..Len(Recipe) :
         /\ PurchaseOf(Recipe[i]).freight_code.tag = "DirectPrice"
         /\ PurchaseOf(Recipe[j]).freight_code.tag = "Code"
         /\ cost.value.consumptions[i].freight_kg_price
              # cost.value.consumptions[j].freight_kg_price
         /\ Len(freight_calls) = 1

(***************************************************************************)
(* C8: the freight cost of each consumption record is its freight kg price *)
(* times the consumed quantity and does not depend on the quantity of the  *)
(* purchase: a run that differs only in the purchase quantities gives the  *)
(* same freight_cost, total_cost and total_freight_cost.                   *)
(***************************************************************************)
C8_FreightByConsumedQuantity ==
    CostDone /\ cost.ok =>
        /\ \A k \in 1..Len(cost.value.consumptions) :
             cost.value.consumptions[k].freight_cost
               = cost.value.consumptions[k].freight_kg_price
                   * (production.quantity * Recipe[k].consumption_ratio)
        /\ \A other_repo \in QuantityVariants(purchase_repo) :
             LET other == calculate_material_consumption(
                              production, formula_repo, other_repo, freight_repo).result
             IN  /\ other.ok
                 /\ Len(other.value.consumptions) = Len(cost.value.consumptions)
                 /\ \A k \in 1..Len(cost.value.consumptions) :
                      /\ other.value.consumptions[k].freight_cost
                           = cost.value.consumptions[k].freight_cost
                      /\ other.value.consumptions[k].total_cost
                           = cost.value.consumptions[k].total_cost
                 /\ other.value.total_freight_cost = cost.value.total_freight_cost

C8_Witness ==
    /\ CostDone /\ cost.ok
    /\ \E k \in 1..Len(cost.value.consumptions) :
         /\ cost.value.consumptions[k].freight_cost > 0
         /\ cost.value.consumptions[k].purchase_quantity
              # cost.value.consumptions[k].quantity
    /\ Cardinality(QuantityVariants(purchase_repo)) > 1

(***************************************************************************)
(* C9: the total_cost of each consumption record is the purchase's unit    *)
(* price times the consumed quantity and holds no freight: a run that      *)
(* differs only in the freight codes or the freight master prices gives    *)
(* the same total_cost for every record.                                   *)
(***************************************************************************)
C9_TotalCostWithoutFreight ==
    CostDone /\ cost.ok =>
        /\ \A k \in 1..Len(cost.value.consumptions) :
             cost.value.consumptions[k].total_cost
               = PurchaseOf(Recipe[k]).unit_price
                   * (production.quantity * Recipe[k].consumption_ratio)
        /\ \A other_purchases \in FreightCodeVariants(purchase_repo),
              other_freights \in FreightRepos :
             LET other == calculate_material_consumption(
                              production, formula_repo, other_purchases,
                              other_freights).result
             IN  other.ok =>
                   /\ Len(other.value.consumptions) = Len(cost.value.consumptions)
                   /\ \A k \in 1..Len(cost.value.consumptions) :
                        other.value.consumptions[k].total_cost
                          = cost.value.consumptions[k].total_cost

C9_Witness ==
    /\ CostDone /\ cost.ok
    /\ \E k \in 1..Len(cost.value.consumptions) :
         /\ cost.value.consumptions[k].total_cost > 0
         /\ cost.value.consumptions[k].freight_cost > 0
         /\ \E other_freights \in FreightRepos :
              LET other == calculate_material_consumption(
                               production, formula_repo, purchase_repo,
                               other_freights).result
              IN  /\ other.ok
                  /\ other.value.consumptions[k].freight_cost
                       # cost.value.consumptions[k].freight_cost

(***************************************************************************)
(* C10: on success total_freight_cost is the sum of freight_cost over the  *)
(* records of consumptions; it is zero when the recipe has no lines or     *)
(* every consumed quantity is zero.                                        *)
(***************************************************************************)
C10_TotalFreightIsSum ==
    CostDone /\ cost.ok =>
        /\ cost.value.total_freight_cost = SumFreight(cost.value.consumptions)
        /\ (\A k \in 1..Len(cost.value.consumptions) :
               cost.value.consumptions[k].quantity = 0)
           => cost.value.total_freight_cost = 0

C10_Witness ==
    /\ CostDone /\ cost.ok
    /\ Len(cost.value.consumptions) = 2
    /\ cost.value.consumptions[1].freight_cost > 0
    /\ cost.value.consumptions[2].freight_cost > 0
    /\ cost.value.consumptions[1].freight_cost # cost.value.consumptions[2].freight_cost

(***************************************************************************)
(* C11: on success there is exactly one consumption record per formula     *)
(* line, in recipe order, with that line's material code and with          *)
(* quantity = production.quantity * consumption_ratio; the quantity is     *)
(* never negative, so that its construction never fails.                   *)
(***************************************************************************)
C11_OneRecordPerLine ==
    CostDone =>
        /\ cost.err # "ValidationError"
        /\ (RecipeFound /\ \A k \in 1..Len(Recipe) : ~LineFails(Recipe[k])) => cost.ok
        /\ cost.ok =>
             /\ Len(cost.value.consumptions) = Len(Recipe)
             /\ \A k \in 1..Len(Recipe) :
                  /\ cost.value.consumptions[k].material_code = Recipe[k].material_code
                  /\ cost.value.consumptions[k].quantity
                       = production.quantity * Recipe[k].consumption_ratio
                  /\ cost.value.consumptions[k].quantity >= 0

C11_Witness ==
    /\ CostDone /\ cost.ok
    /\ Len(cost.value.consumptions) = 2
    /\ cost.value.consumptions[1].material_code # cost.value.consumptions[2].material_code
    /\ cost.value.consumptions[1].quantity > 0
    /\ cost.value.consumptions[2].quantity = 0

(***************************************************************************)
(* Vocabulary of the properties of the figures of the result DTO.          *)
(***************************************************************************)
\* the sum of total_cost over a list of consumption records
RECURSIVE SumTotalCost(_)
SumTotalCost(consumptions) ==
    IF consumptions = <<>> THEN 0
    ELSE consumptions[1].total_cost + SumTotalCost(Tail(consumptions))

\* the interactor has presented a result DTO
DtoDone == CostDone /\ cost.ok /\ result_dto # <<>>

(***************************************************************************)
(* C13: the total material cost is yield_cost + coagulant_cost +           *)
(* clay_treatment_cost + freight_cost, where the interactor passes the     *)
(* batch's yield cost, the production's coagulant and clay treatment costs *)
(* and the batch's total_freight_cost; the freight is counted exactly once.*)
(***************************************************************************)
C13_TotalMaterialCost ==
    (CostDone /\ cost.ok) =>
        /\ result_dto # <<>>
        /\ result_dto.coagulant_cost = production.coagulant_cost
        /\ result_dto.clay_treatment_cost = production.clay_treatment_cost
        /\ result_dto.freight_cost = cost.value.total_freight_cost
        /\ result_dto.yield_cost * production.yield_rate.den
             = SumTotalCost(cost.value.consumptions) * production.yield_rate.num
        /\ result_dto.total_material_cost
             = result_dto.yield_cost + production.coagulant_cost
               + production.clay_treatment_cost + SumFreight(cost.value.consumptions)

C13_Witness ==
    /\ DtoDone
    /\ result_dto.yield_cost > 0
    /\ result_dto.coagulant_cost > 0
    /\ result_dto.clay_treatment_cost > 0
    /\ result_dto.freight_cost > 0
    /\ Len(cost.value.consumptions) = 2

(***************************************************************************)
(* C14: the raw material cost is the sum of total_cost over the            *)
(* consumption records; freight_cost is not part of it, and it is zero for *)
(* an empty list.                                                          *)
(***************************************************************************)
C14_RawMaterialCost ==
    (CostDone /\ cost.ok) =>
        /\ result_dto # <<>>
        /\ result_dto.raw_material_cost = SumTotalCost(cost.value.consumptions)
        /\ cost.value.consumptions = <<>> => result_dto.raw_material_cost = 0

C14_Witness ==
    /\ DtoDone
    /\ Len(cost.value.consumptions) = 2
    /\ \A k \in 1..2 : /\ cost.value.consumptions[k].total_cost > 0
                       /\ cost.value.consumptions[k].freight_cost > 0

(***************************************************************************)
(* C15: the yield cost is raw_material_cost * yield_rate, and lies between *)
(* zero and the raw material cost, both included.                          *)
(***************************************************************************)
C15_YieldCost ==
    (CostDone /\ cost.ok) =>
        /\ result_dto # <<>>
        /\ result_dto.yield_cost * production.yield_rate.den
             = result_dto.raw_material_cost * production.yield_rate.num
        /\ 0 <= result_dto.yield_cost
        /\ result_dto.yield_cost <= result_dto.raw_material_cost

C15_Witness ==
    /\ DtoDone
    /\ production.yield_rate = [num |-> 1, den |-> 2]
    /\ result_dto.raw_material_cost > 0
    /\ 0 < result_dto.yield_cost
    /\ result_dto.yield_cost < result_dto.raw_material_cost

\* the function fn has been applied to call.args
Called(fn) == call.fn = fn /\ call.result # NoResult

(***************************************************************************)
(* C12: calculate_unit_cost(raw, kg) is (raw / kg) * 1000 for every        *)
(* kg > 0, and is zero, without an error, when kg = 0.                     *)
(***************************************************************************)
C12_UnitCost ==
    Called("calculate_unit_cost") =>
        LET raw == call.args[1]
            kg == call.args[2]
        IN  /\ kg > 0 => /\ call.result.ok
                         /\ call.result.value * kg = raw * 1000
            /\ kg = 0 => /\ call.result.ok
                         /\ call.result.value = 0

C12_Witness ==
    /\ Called("calculate_unit_cost")
    /\ call.args = <<12000, 80>>
    /\ call.result.value = 150000

(***************************************************************************)
(* C17: no domain-service function swallows a failure: when the            *)
(* construction of the Amount inside calculate_unit_cost fails, the caller *)
(* receives a failure and not a substituted value.                         *)
(***************************************************************************)
C17_NoSwallowedFailure ==
    Called("calculate_unit_cost") =>
        LET raw == call.args[1]
            kg == call.args[2]
        IN  (kg # 0 /\ ~Amount_new(F64Div(raw, kg) * 1000).ok) => ~call.result.ok

(***************************************************************************)
(* C20: Quantity::new(v) and Amount::new(v) fail for every v < 0 and       *)
(* succeed for v = 0 and for every v > 0 with a value whose value() is v.  *)
(***************************************************************************)
C20_NonNegativeConstructors ==
    (Called("Quantity::new") \/ Called("Amount::new")) =>
        LET v == call.args[1]
        IN  /\ v < 0 => /\ ~call.result.ok
                        /\ call.result.err = "ValidationError"
            /\ v >= 0 => /\ call.result.ok
                         /\ call.result.value = v

C20_Witness ==
    /\ Called("Amount::new")
    /\ call.args[1] < 0
    /\ ~call.result.ok

(***************************************************************************)
(* Vocabulary of the properties of FreightCode::new.                       *)
(***************************************************************************)
\* 'T' followed by exactly four ASCII digits
IsFreightCodeFormat(s) ==
    /\ Len(s) = 5
    /\ s[1] = 84
    /\ \A i \in 2..5 : s[i] >= 48 /\ s[i] <= 57

\* what the specification prescribes for the trimmed input t
FreightCodeExpected(t) ==
    LET number == ParseF64(t)
    IN  IF number.ok /\ F64GeZero(number.value) THEN Ok(DirectPrice(number.value))
        ELSE IF number.ok THEN Err("ValidationError")
        ELSE IF IsFreightCodeFormat(t) THEN Ok(Code(t))
        ELSE Err("ValidationError")

(***************************************************************************)
(* C18: FreightCode::new on the trimmed input gives DirectPrice(v) if the  *)
(* input parses as a number v >= 0, fails if it parses as a negative       *)
(* number, gives Code(s) if it parses as no number and is 'T' and exactly  *)
(* four ASCII digits, and fails for every other input, the empty string    *)
(* included.                                                               *)
(***************************************************************************)
C18_FreightCodeNew ==
    Called("FreightCode::new") =>
        call.result = FreightCodeExpected(Trim(call.args[1]))

\* the same for every input that does not parse as NaN
FreightCodeNewExceptNaN ==
    (Called("FreightCode::new") /\ ParseF64(Trim(call.args[1])) # Ok(F64NaN)) =>
        call.result = FreightCodeExpected(Trim(call.args[1]))

(***************************************************************************)
(* Vocabulary of the properties of TransactionDate::new.                   *)
(***************************************************************************)
\* a year is leap if divisible by 4 and not by 100, or divisible by 400
IsLeapYear(y) == (y % 4 = 0 /\ y % 100 # 0) \/ y % 400 = 0

DaysInMonth(y, m) ==
    IF m = 2 THEN (IF IsLeapYear(y) THEN 29 ELSE 28)
    ELSE IF m \in {4, 6, 9, 11} THEN 30
    ELSE 31

\* a non-empty string of ASCII digits
IsNumeral(s) == s # <<>> /\ \A i \in 1..Len(s) : s[i] >= 48 /\ s[i] <= 57

\* t is Y{sep}M{sep}D for one separator and the numerals Y, M, D of a date
\* of the calendar between 1900 and 2100
IsCalendarDate(t) ==
    \E i, j \in 1..Len(t) :
        /\ i < j
        /\ t[i] \in {45, 47, 46}
        /\ t[j] = t[i]
        /\ LET y == SubSeq(t, 1, i - 1)
               m == SubSeq(t, i + 1, j - 1)
               d == SubSeq(t, j + 1, Len(t))
           IN  /\ IsNumeral(y) /\ IsNumeral(m) /\ IsNumeral(d)
               /\ DigitsValue(y) >= 1900 /\ DigitsValue(y) <= 2100
               /\ DigitsValue(m) >= 1 /\ DigitsValue(m) <= 12
               /\ DigitsValue(d) >= 1
               /\ DigitsValue(d) <= DaysInMonth(DigitsValue(y), DigitsValue(m))

(***************************************************************************)
(* C19: TransactionDate::new succeeds exactly when the trimmed input is    *)
(* Y{sep}M{sep}D with one separator among '-', '/' and '.', a year in      *)
(* [1900, 2100], a month in [1, 12] and a day between 1 and the number of  *)
(* days of that month in that year (February has 29 days only in leap      *)
(* years; 1900 and 2100 are not leap, 2000 is).                            *)
(***************************************************************************)
C19_ValidExactlyCalendarDates ==
    Called("TransactionDate::new") =>
        (call.result.ok <=> IsCalendarDate(Trim(call.args[1])))

\* the same for every input without a '+': a sign before the year, the
\* month or the day is the one thing the integer parsers add to the numerals
DateNewWithoutPlusSign ==
    (Called("TransactionDate::new") /\ ~Contains(call.args[1], 43)) =>
        /\ call.result.ok <=> IsCalendarDate(Trim(call.args[1]))
        /\ call.result.ok => call.result.value = Trim(call.args[1])

(***************************************************************************)
(* C16: every Amount obtained through Amount::new, Amount::zero and any    *)
(* sequence of add, multiply and divide_by has a value >= 0: no operation  *)
(* lets a negative Amount escape.                                          *)
(***************************************************************************)
C16_AmountNonNegative ==
    amount.ok => amount.value >= 0

\* add keeps two non-negative Amounts non-negative; multiply and divide_by
\* keep the sign of the Amount exactly when their factor is positive
AmountSignFollowsFactor ==
    [][/\ (\E v \in AmountInputs : AmountAdd(v)) =>
            (amount.value >= 0 => amount'.value >= 0)
       /\ \A r \in AmountRatios : AmountMultiply(r) =>
            ((amount.value > 0 /\ r.num < 0) => amount'.value < 0)
       /\ \A d \in AmountDivisors : AmountDivideBy(d) =>
            ((amount.value > 0 /\ d < 0) => amount'.value < 0)]_vars

(***************************************************************************)
(* C21: YieldRate::new(v) succeeds if and only if 0 <= v <= 1, both bounds *)
(* included.                                                               *)
(***************************************************************************)
C21_YieldRateRange ==
    Called("YieldRate::new") =>
        LET v == call.args[1]
        IN  /\ call.result.ok <=> (v.den > 0 /\ 0 <= v.num /\ v.num <= v.den)
            /\ call.result.ok => call.result.value = v

C21_Witness ==
    /\ Called("YieldRate::new")
    /\ call.args[1] = [num |-> 1, den |-> 1]
    /\ call.result.ok

DaysInYear(y) == IF IsLeapYear(y) THEN 366 ELSE 365

\* the n-th day of the year y counted from the month m on, n >= 1
RECURSIVE DayOfYearFrom(_, _, _)
DayOfYearFrom(y, m, n) ==
    IF n > DaysInMonth(y, m) THEN DayOfYearFrom(y, m + 1, n - DaysInMonth(y, m))
    ELSE [year |-> y, month |-> m, day |-> n]

\* the n-th day counted from the first of January of the year y, n >= 1
RECURSIVE DayFromYear(_, _)
DayFromYear(y, n) ==
    IF n > DaysInYear(y) THEN DayFromYear(y + 1, n - DaysInYear(y))
    ELSE DayOfYearFrom(y, 1, n)

\* the calendar date of a whole serial of the 1900 date system: serial 1 is
\* 1900-01-01 and serial 60 is no date, so that serial 61 is 1900-03-01
ExcelCalendarDate(serial) ==
    DayFromYear(1900, IF serial <= 59 THEN serial ELSE serial - 1)

\* the whole part of a non-negative serial
WholeSerial(v) == v.num \div v.den

(***************************************************************************)
(* C27: excel_serial_to_date converts a serial of the 1900 date system,    *)
(* where serial 1 is 1900-01-01 and the nonexistent 1900-02-29 occupies    *)
(* serial 60, to the calendar date the serial denotes, as YYYY-MM-DD.      *)
(***************************************************************************)
C27_SerialToCalendarDate ==
    (Called("excel_serial_to_date") /\ WholeSerial(call.args[1]) # 60) =>
        call.result.value = FormatDate(ExcelCalendarDate(WholeSerial(call.args[1])))

\* the date returned is the date of the serial two days before
SerialDateTwoDaysEarly ==
    (Called("excel_serial_to_date")
       /\ WholeSerial(call.args[1]) \in (3..59) \cup {s \in WholeSerials : s >= 63}) =>
        call.result.value = FormatDate(ExcelCalendarDate(WholeSerial(call.args[1]) - 2))

(***************************************************************************)
(* Vocabulary of the properties of the balances per product.               *)
(***************************************************************************)
\* the elements of s that carry the product code, in the order of s
RECURSIVE OfProduct(_, _)
OfProduct(s, code) ==
    IF s = <<>> THEN <<>>
    ELSE (IF Head(s).product_code = code THEN <<Head(s)>> ELSE <<>>)
            \o OfProduct(Tail(s), code)

\* the (base_quantity, change_quantity, balance) values of records
Figures(records) ==
    [k \in 1..Len(records) |->
        <<records[k].base_quantity, records[k].change_quantity, records[k].balance>>]

ProductCodesOf(s) == { s[k].product_code : k \in 1..Len(s) }

C28_FinalBalanceIsNetQuantity ==
    (HistoryDone /\ history.ok) =>
        \A code \in ProductCodesOf(transactions) :
            LET records == OfProduct(history.value, code)
            IN  /\ records # <<>>
                /\ records[Len(records)].balance
                     = RunningSum(transactions, code, Len(transactions))

C28_Witness ==
    /\ HistoryDone /\ history.ok
    /\ Len(transactions) = 3
    /\ transactions[1].inventory_type = "Sales"
    /\ transactions[2].inventory_type = "Purchase"
    /\ transactions[3].inventory_type = "Production"
    /\ \A k \in 1..3 : transactions[k].product_code = <<80, 49>>
                       /\ transactions[k].quantity > 0
    /\ transactions[1].date # transactions[3].date

(***************************************************************************)
(* C29: the running balances of different products are independent: the    *)
(* (base_quantity, change_quantity, balance) values of the records of a    *)
(* product are those create_history gives for the transactions of that     *)
(* product alone, so adding, removing or changing transactions of another  *)
(* product leaves them unchanged.                                          *)
(***************************************************************************)
C29_ProductsIndependent ==
    (HistoryDone /\ history.ok) =>
        \A code \in ProductCodesOf(transactions) :
            LET alone == create_history(OfProduct(transactions, code))
            IN  /\ alone.ok
                /\ Figures(OfProduct(history.value, code)) = Figures(alone.value)

C29_Witness ==
    /\ HistoryDone /\ history.ok
    /\ Len(history.value) = 3
    /\ history.value[1].product_code = <<80, 49>>
    /\ history.value[2].product_code = <<80, 50>>
    /\ history.value[3].product_code = <<80, 49>>
    /\ history.value[1].balance > 0
    /\ history.value[2].balance > 0
    /\ history.value[3].base_quantity = history.value[1].balance

(***************************************************************************)
(* Vocabulary of the properties of the output ports.                       *)
(***************************************************************************)
\* the positions of the calls of a method in the port
CallsOf(name) == {k \in 1..Len(port) : port[k].name = name}

(***************************************************************************)
(* C26: CreateInventoryHistoryInteractor::execute calls                    *)
(* present_history_start first; on success it then calls                  *)
(* present_history_record once per ledger record in ledger order,          *)
(* present_history_completion with the record count, and finalize last; if *)
(* the repository or create_history fails it calls present_history_error,  *)
(* returns the error, and calls neither present_history_record nor         *)
(* finalize.                                                               *)
(***************************************************************************)
C26_HistoryPortProtocol ==
    epc = "returned" =>
        LET ledger == create_history(found.value)
            n == Len(ledger.value)
        IN  /\ port[1] = PortCall("present_history_start", <<>>)
            /\ CallsOf("present_history_start") = {1}
            /\ (found.ok /\ ledger.ok) =>
                 /\ Len(port) = n + 3
                 /\ \A k \in 1..n :
                      /\ port[k + 1].name = "present_history_record"
                      /\ port[k + 1].args[1].date = ledger.value[k].date
                      /\ port[k + 1].args[1].product_code = ledger.value[k].product_code
                      /\ port[k + 1].args[1].inventory_type
                           = InventoryType_as_str(ledger.value[k].inventory_type)
                      /\ Figures(<<port[k + 1].args[1]>>) = Figures(<<ledger.value[k]>>)
                 /\ port[n + 2] = PortCall("present_history_completion", <<n>>)
                 /\ port[n + 3] = PortCall("finalize", <<>>)
                 /\ CallsOf("present_history_error") = {}
            /\ ~(found.ok /\ ledger.ok) =>
                 /\ Len(port) = 2
                 /\ port[2].name = "present_history_error"
                 /\ ~exec.ok
                 /\ exec.err = (IF found.ok THEN ledger.err ELSE found.err)
                 /\ CallsOf("present_history_record") = {}
                 /\ CallsOf("finalize") = {}

C26_Witness ==
    /\ epc = "returned"
    /\ found.ok
    /\ exec.ok
    /\ Len(port) = 5
    /\ port[2].name = "present_history_record"
    /\ port[2].args[1].date # found.value[1].date
    /\ port[5].name = "finalize"

\* calculate_material_consumption for the production at 0-based index i
ConsumptionOf(i) ==
    calculate_material_consumption(found.value[i + 1], formula_repo,
                                   purchase_repo, freight_repo).result

\* the 0-based indices of the productions whose calculation fails
Failing == {i \in 0..(Len(found.value) - 1) : ~ConsumptionOf(i).ok}

\* the 0-based index of the first production whose calculation fails
FirstFailing == CHOOSE i \in Failing : \A j \in Failing : i <= j

\* the row numbers of the calls of a method whose first argument is a row
\* number or a DTO with one
RowNumbersOf(name) ==
    {IF name = "present_processing_row" THEN port[k].args[1]
     ELSE port[k].args[1].row_number : k \in CallsOf(name)}

(***************************************************************************)
(* C24: CalculateMaterialCostInteractor::execute stops at the first        *)
(* production whose calculate_material_consumption fails: it calls         *)
(* present_error exactly once, returns that error, processes no later      *)
(* production, and never calls present_completion; results of earlier      *)
(* productions have already been passed to present_calculation_result.     *)
(***************************************************************************)
C24_StopsAtFirstFailure ==
    (epc = "returned" /\ found.ok /\ Failing # {}) =>
        LET f == FirstFailing
        IN  /\ CallsOf("present_error") = {Len(port)}
            /\ ~exec.ok
            /\ exec.err = ConsumptionOf(f).err
            /\ port[Len(port)].args = <<ConsumptionOf(f).err>>
            /\ RowNumbersOf("present_processing_row") = {i + 2 : i \in 0..f}
            /\ Cardinality(CallsOf("present_processing_row")) = f + 1
            /\ CallsOf("present_completion") = {}
            /\ RowNumbersOf("present_calculation_result") = {i + 2 : i \in 0..(f - 1)}
            /\ Cardinality(CallsOf("present_calculation_result")) = f
            /\ \A k \in CallsOf("present_calculation_result") : k < Len(port)

C24_Witness ==
    /\ epc = "returned"
    /\ found.ok
    /\ Len(found.value) = 3
    /\ Failing # {}
    /\ FirstFailing = 1
    /\ ~exec.ok
    /\ Cardinality(CallsOf("present_calculation_result")) = 1

(***************************************************************************)
(* C25: in a successful CalculateMaterialCostInteractor::execute over      *)
(* n >= 1 productions, the output port sees present_calculation_start(n)   *)
(* first, then for each production at 0-based index i, in input order,     *)
(* present_processing_row(i+2), present_material_consumptions,             *)
(* present_calculation_result with row_number i+2, and finally             *)
(* present_completion exactly once after the last row; with n = 0 it sees  *)
(* only present_no_data.                                                   *)
(***************************************************************************)
C25_SuccessfulPortProtocol ==
    (epc = "returned" /\ found.ok /\ exec.ok) =>
        LET n == Len(found.value)
        IN  /\ n = 0 => port = <<PortCall("present_no_data", <<>>)>>
            /\ n >= 1 =>
                 /\ Len(port) = 3 * n + 2
                 /\ port[1] = PortCall("present_calculation_start", <<n>>)
                 /\ \A i \in 0..(n - 1) :
                      /\ port[3 * i + 2] =
                           PortCall("present_processing_row",
                                    <<i + 2, found.value[i + 1].product_code>>)
                      /\ port[3 * i + 3].name = "present_material_consumptions"
                      /\ port[3 * i + 3].args[1]
                           = MaterialConsumptionDtos_of(ConsumptionOf(i).value.consumptions)
                      /\ port[3 * i + 4].name = "present_calculation_result"
                      /\ port[3 * i + 4].args[1].row_number = i + 2
                      /\ port[3 * i + 4].args[1].coagulant_cost
                           = found.value[i + 1].coagulant_cost
                 /\ port[3 * n + 2] = PortCall("present_completion", <<>>)
                 /\ CallsOf("present_completion") = {3 * n + 2}

C25_Witness ==
    /\ epc = "returned"
    /\ found.ok
    /\ exec.ok
    /\ Len(found.value) = 3
    /\ found.value[1].quantity # found.value[2].quantity
    /\ Len(port) = 11
    /\ port[10].args[1].row_number = 4

====
